---- MODULE Spec2Model ----
(***************************************************************************)
(* Scope analysis of a TypeScript syntax tree (src/src/index.ts).          *)
(*                                                                         *)
(* SourceFileScopesContainer runs two passes over a syntax tree:           *)
(*   findScopes        builds the scope tree, the bindings and the         *)
(*                     node -> scope table;                                *)
(*   assignReferences  records one Reference per identifier occurrence.    *)
(*                                                                         *)
(* A syntax tree is a nested record; a node is identified by its path from *)
(* the root (the sequence of child indexes), which stands for the object   *)
(* identity the code's WeakMap keys on.  Scopes, bindings and references   *)
(* are objects of a heap: sequences indexed by creation order.             *)
(***************************************************************************)
EXTENDS Integers, Sequences, FiniteSets, TLC

VARIABLES
    sourceFile,   \* the syntax tree handed to the constructor
    pc,           \* "findScopes", "assignReferences", "done", "error", "api"
    stack,        \* pending calls of the running traversal, innermost first
    result,       \* findScopes' WeakMap<ts.Node, Scope>: path -> scope id
    scopes,       \* heap of Scope objects
    decls,        \* heap of ScopeBindingDeclaration objects
    refs,         \* heap of ScopeReference objects
    err,          \* message of the Error thrown, "" when none
    call          \* the last call a client made on a Scope (history)

vars == <<sourceFile, pc, stack, result, scopes, decls, refs, err, call>>

(***************************************************************************)
(* Bounds of the model.                                                    *)
(***************************************************************************)
NestDepth == 2
MaxCalls == 4
MaxChain == 2

-----------------------------------------------------------------------------
(***************************************************************************)
(* Syntax trees.  kids are in ts.forEachChild order; role is the name of   *)
(* the parent's property that holds the node.                              *)
(***************************************************************************)
Node(kind, text, flags, kids) ==
    [kind |-> kind, text |-> text, flags |-> flags, role |-> "", kids |-> kids]

None == Node("None", "", {}, <<>>)

As(role, n) == [n EXCEPT !.role = role]

Opt(role, n) == IF n = None THEN <<>> ELSE <<As(role, n)>>

Each(role, ns) == [i \in 1..Len(ns) |-> As(role, ns[i])]

Id(t) == Node("Identifier", t, {}, <<>>)
Tok(kind) == Node(kind, "", {}, <<>>)
Num == Node("NumericLiteral", "0", {}, <<>>)

SourceFile(stmts) ==
    Node("SourceFile", "", {},
         Each("statements", stmts) \o <<As("endOfFileToken", Tok("EndOfFileToken"))>>)

VarDecl(name, type, init) ==
    Node("VariableDeclaration", "", {},
         <<As("name", name)>> \o Opt("type", type) \o Opt("initializer", init))

VarList(flags, ds) ==
    Node("VariableDeclarationList", "", flags, Each("declarations", ds))

VarStmt(flags, ds) ==
    Node("VariableStatement", "", {}, <<As("declarationList", VarList(flags, ds))>>)

Block(stmts) == Node("Block", "", {}, Each("statements", stmts))

ExprStmt(e) == Node("ExpressionStatement", "", {}, <<As("expression", e)>>)

Return(e) == Node("ReturnStatement", "", {}, Opt("expression", e))

FunctionLike(kind, name, params, type, body) ==
    Node(kind, "", {},
         Opt("name", name) \o Each("parameters", params) \o Opt("type", type)
         \o (IF kind = "ArrowFunction"
             THEN <<As("equalsGreaterThanToken", Tok("EqualsGreaterThanToken"))>>
             ELSE <<>>)
         \o Opt("body", body))

Param(name, init) ==
    Node("Parameter", "", {}, <<As("name", name)>> \o Opt("initializer", init))

RestParam(name) ==
    Node("Parameter", "", {},
         <<As("dotDotDotToken", Tok("DotDotDotToken")), As("name", name)>>)

ObjectPattern(els) == Node("ObjectBindingPattern", "", {}, Each("elements", els))
ArrayPattern(els) == Node("ArrayBindingPattern", "", {}, Each("elements", els))

BindingElement(propertyName, name) ==
    Node("BindingElement", "", {}, Opt("propertyName", propertyName) \o <<As("name", name)>>)

Omitted == Node("OmittedExpression", "", {}, <<>>)

Binary(left, op, right) ==
    Node("BinaryExpression", "", {},
         <<As("left", left), As("operatorToken", Tok(op)), As("right", right)>>)

Assign(left, right) == Binary(left, "EqualsToken", right)

Call(e, args) ==
    Node("CallExpression", "", {}, <<As("expression", e)>> \o Each("arguments", args))

PropertyAccess(e, name) ==
    Node("PropertyAccessExpression", "", {}, <<As("expression", e), As("name", Id(name))>>)

AsExpression(e, type) ==
    Node("AsExpression", "", {}, <<As("expression", e), As("type", type)>>)

Paren(e) == Node("ParenthesizedExpression", "", {}, <<As("expression", e)>>)

ComputedName(e) == Node("ComputedPropertyName", "", {}, <<As("expression", e)>>)

DecoratedMethod(decorator, name) ==
    Node("MethodDeclaration", "", {},
         <<As("decorators", Node("Decorator", "", {}, <<As("expression", decorator)>>)),
           As("name", Id(name)), As("body", Node("Block", "", {}, <<>>))>>)

Class(kind, name, members) ==
    Node(kind, "", {}, Opt("name", name) \o Each("members", members))

For(init, cond, inc, stmt) ==
    Node("ForStatement", "", {},
         Opt("initializer", init) \o Opt("condition", cond) \o Opt("incrementor", inc)
         \o <<As("statement", stmt)>>)

ForInOf(kind, init, e, stmt) ==
    Node(kind, "", {},
         <<As("initializer", init), As("expression", e), As("statement", stmt)>>)

If(e, then, else) ==
    Node("IfStatement", "", {},
         <<As("expression", e), As("thenStatement", then)>> \o Opt("elseStatement", else))

While(e, stmt) ==
    Node("WhileStatement", "", {}, <<As("expression", e), As("statement", stmt)>>)

Do(stmt, e) ==
    Node("DoStatement", "", {}, <<As("statement", stmt), As("expression", e)>>)

Throw(e) == Node("ThrowStatement", "", {}, <<As("expression", e)>>)

CaseClause(e, stmts) ==
    Node("CaseClause", "", {}, <<As("expression", e)>> \o Each("statements", stmts))

Switch(e, clauses) ==
    Node("SwitchStatement", "", {},
         <<As("expression", e),
           As("caseBlock", Node("CaseBlock", "", {}, Each("clauses", clauses)))>>)

Try(block, variable, catchBlock) ==
    Node("TryStatement", "", {},
         <<As("tryBlock", block),
           As("catchClause",
              Node("CatchClause", "", {},
                   Opt("variableDeclaration",
                       IF variable = None THEN None ELSE VarDecl(variable, None, None))
                   \o <<As("block", catchBlock)>>))>>)

ImportSpecifier(propertyName, name) ==
    Node("ImportSpecifier", "", {}, Opt("propertyName", propertyName) \o <<As("name", name)>>)

Import(name, namedBindings) ==
    Node("ImportDeclaration", "", {},
         <<As("importClause",
              Node("ImportClause", "", {},
                   Opt("name", name) \o Opt("namedBindings", namedBindings))),
           As("moduleSpecifier", Node("StringLiteral", "m", {}, <<>>))>>)

NamespaceImport(name) == Node("NamespaceImport", "", {}, <<As("name", name)>>)
NamedImports(els) == Node("NamedImports", "", {}, Each("elements", els))

StringLiteral == Node("StringLiteral", "value", {}, <<>>)

PropertyAssignment(name, init) ==
    Node("PropertyAssignment", "", {}, <<As("name", Id(name)), As("initializer", init)>>)

ObjectLiteral(props) == Node("ObjectLiteralExpression", "", {}, Each("properties", props))

JsxAttribute(name, init) ==
    Node("JsxAttribute", "", {}, <<As("name", Id(name))>> \o Opt("initializer", init))

JsxSpreadAttribute(e) == Node("JsxSpreadAttribute", "", {}, <<As("expression", e)>>)

JsxExpression(e) == Node("JsxExpression", "", {}, Opt("expression", e))

JsxText == Node("JsxText", "Text", {}, <<>>)

JsxAttributes(attrs) == Node("JsxAttributes", "", {}, Each("properties", attrs))

JsxSelfClosingElement(tagName, attrs) ==
    Node("JsxSelfClosingElement", "", {},
         <<As("tagName", tagName), As("attributes", JsxAttributes(attrs))>>)

JsxElement(tagName, attrs, children) ==
    Node("JsxElement", "", {},
         <<As("openingElement",
              Node("JsxOpeningElement", "", {},
                   <<As("tagName", tagName), As("attributes", JsxAttributes(attrs))>>))>>
         \o Each("children", children)
         \o <<As("closingElement",
                 Node("JsxClosingElement", "", {}, <<As("tagName", tagName)>>))>>)

JsxFragment(children) ==
    Node("JsxFragment", "", {},
         <<As("openingFragment", Tok("JsxOpeningFragment"))>>
         \o Each("children", children)
         \o <<As("closingFragment", Tok("JsxClosingFragment"))>>)

TypeReference(name) == Node("TypeReference", "", {}, <<As("typeName", Id(name))>>)
TypeQuery(name) == Node("TypeQuery", "", {}, <<As("exprName", Id(name))>>)

-----------------------------------------------------------------------------
(***************************************************************************)
(* Navigation: ts.Node.parent, ts.forEachChild and the named properties.   *)
(***************************************************************************)
NoNode == <<0>>

RECURSIVE NodeAt(_, _)
NodeAt(n, p) == IF p = <<>> THEN n ELSE NodeAt(n.kids[Head(p)], Tail(p))

At(p) == NodeAt(sourceFile, p)

Parent(p) == SubSeq(p, 1, Len(p) - 1)

Children(p) == [i \in 1..Len(At(p).kids) |-> Append(p, i)]

RoleIndexes(n, role) == {i \in 1..Len(n.kids) : n.kids[i].role = role}

\* node.<role> for a single-node property: its path, NoNode when undefined
Field(p, role) ==
    LET is == RoleIndexes(At(p), role)
    IN  IF is = {} THEN NoNode ELSE Append(p, CHOOSE i \in is : \A j \in is : i <= j)

RECURSIVE SortedSeq(_)
SortedSeq(s) ==
    IF s = {} THEN <<>>
    ELSE LET m == CHOOSE i \in s : \A j \in s : i <= j
         IN  <<m>> \o SortedSeq(s \ {m})

\* node.<role> for a NodeArray property: the paths of its elements, in order
Fields(p, role) ==
    LET is == SortedSeq(RoleIndexes(At(p), role))
    IN  [k \in 1..Len(is) |-> Append(p, is[k])]

RECURSIVE PathsBelow(_, _)
PathsBelow(n, p) ==
    {p} \cup UNION {PathsBelow(n.kids[i], Append(p, i)) : i \in 1..Len(n.kids)}

\* every node reachable from the root by child navigation
AllNodes == PathsBelow(sourceFile, <<>>)

IsPrefix(p, q) == Len(p) <= Len(q) /\ SubSeq(q, 1, Len(p)) = p

-----------------------------------------------------------------------------
(***************************************************************************)
(* Node-kind predicates of the parser, as the two passes use them.         *)
(***************************************************************************)
FunctionLikeDeclarationKinds ==
    {"Constructor", "MethodDeclaration", "FunctionDeclaration", "ArrowFunction",
     "FunctionExpression", "GetAccessor", "SetAccessor"}

FunctionLikeKinds ==
    FunctionLikeDeclarationKinds
    \cup {"MethodSignature", "CallSignature", "ConstructSignature", "IndexSignature",
          "FunctionType", "ConstructorType"}

TypeNodeKinds ==
    {"TypeReference", "TypeQuery", "FunctionType", "ConstructorType", "TypeLiteral",
     "ArrayType", "UnionType", "AnyKeyword", "NumberKeyword", "StringKeyword"}

IsIdentifier(n) == n.kind = "Identifier"
IsBlock(n) == n.kind = "Block"
IsFunctionLike(n) == n.kind \in FunctionLikeKinds
IsClassLike(n) == n.kind \in {"ClassDeclaration", "ClassExpression"}
IsTypeNode(n) == n.kind \in TypeNodeKinds
IsForLoop(n) == n.kind \in {"ForInStatement", "ForOfStatement", "ForStatement"}

\* faulty variant: only const counts as block scoped, let is treated like var
BlockScopedConstOnly(flags) == "Const" \in flags

\* (node.parent.flags & ts.NodeFlags.BlockScoped) != 0 and (... & ts.NodeFlags.Const) != 0
BlockScoped(flags) == flags \cap {"Let", "Const"} # {}
Const(flags) == "Const" \in flags

-----------------------------------------------------------------------------
(***************************************************************************)
(* class Scope.  The heap h = [scopes, decls, refs, err] is the part of    *)
(* the state its methods read and write.                                   *)
(***************************************************************************)
NoScope == 0
NoDecl == 0

EmptyMap == [k \in {} |-> 0]
MapHas(m, k) == k \in DOMAIN m
MapSet(m, k, v) == (k :> v) @@ m

NewScope(scopeKind, declaratingNode, parentScope) ==
    [scopeKind      |-> scopeKind,
     bindings       |-> EmptyMap,
     parentScope    |-> parentScope,
     declaratingNode |-> declaratingNode,
     childScopes    |-> <<>>,
     references     |-> <<>>]

Declaration(declaringNode, bindingScopeKind, identifier, mutability) ==
    [declaringNode    |-> declaringNode,
     bindingScopeKind |-> bindingScopeKind,
     identifier       |-> identifier,
     mutability       |-> mutability,
     references       |-> <<>>]

\* the value getBinding returns: [binding, scope], NoBinding for null
NoBinding == [binding |-> NoDecl, scope |-> NoScope]

RECURSIVE GetBinding(_, _, _)
\* faulty variant: the outermost binding wins over a nearer one
GetBindingOuterFirst(S, s, name) ==
    IF S[s].parentScope # NoScope /\ GetBinding(S, S[s].parentScope, name) # NoBinding
    THEN GetBinding(S, S[s].parentScope, name)
    ELSE IF MapHas(S[s].bindings, name)
         THEN [binding |-> S[s].bindings[name], scope |-> s]
         ELSE NoBinding

GetBinding(S, s, name) ==
    IF MapHas(S[s].bindings, name)
    THEN [binding |-> S[s].bindings[name], scope |-> s]
    ELSE IF S[s].parentScope = NoScope THEN NoBinding
         ELSE GetBinding(S, S[s].parentScope, name)

GetOwnLexicalBinding(S, s, name) ==
    IF MapHas(S[s].bindings, name) THEN S[s].bindings[name] ELSE NoDecl

\* faulty variant: the search goes on beyond the function scope
GetOwnFunctionScopeBindingUnbounded(S, s, name) == GetBinding(S, s, name)

RECURSIVE GetOwnFunctionScopeBinding(_, _, _)
GetOwnFunctionScopeBinding(S, s, name) ==
    IF MapHas(S[s].bindings, name)
    THEN [binding |-> S[s].bindings[name], scope |-> s]
    ELSE IF S[s].scopeKind = "FunctionScope" \/ S[s].parentScope = NoScope
         THEN NoBinding
         ELSE GetOwnFunctionScopeBinding(S, S[s].parentScope, name)

\* the new scope is Len(S) + 1
NewChildScope(S, s, scopeKind, declaratingNode) ==
    Append([S EXCEPT ![s].childScopes = Append(@, Len(S) + 1)],
           NewScope(scopeKind, declaratingNode, s))

\* the while loop of addBinding
RECURSIVE FunctionScopeOf(_, _)
FunctionScopeOf(S, s) ==
    IF s # NoScope /\ S[s].scopeKind # "FunctionScope"
    THEN FunctionScopeOf(S, S[s].parentScope)
    ELSE s

\* faulty variant: no hoisting, every binding stays in the scope it was declared in
BindingTargetNoHoist(S, s, declaration) == s

\* faulty variant: every binding is hoisted, lexically scoped ones too
BindingTargetAlwaysHoist(S, s, declaration) == FunctionScopeOf(S, s)

BindingTarget(S, s, declaration) ==
    IF declaration.bindingScopeKind = "LexicalScope" THEN s ELSE FunctionScopeOf(S, s)

\* faulty variant: a name that is already in the table keeps its first binding
AddBindingKeepsFirst(h, s, name, declaration) ==
    LET scope == BindingTarget(h.scopes, s, declaration)
    IN  IF scope = NoScope
        THEN [h EXCEPT !.err = "Could not find parent function scope"]
        ELSE IF MapHas(h.scopes[scope].bindings, name)
             THEN [h EXCEPT !.decls = Append(@, declaration)]
             ELSE [h EXCEPT !.decls = Append(@, declaration),
                            !.scopes[scope].bindings = MapSet(@, name, Len(h.decls) + 1)]

\* the declaration object becomes decls[Len(decls) + 1]
AddBinding(h, s, name, declaration) ==
    LET scope == BindingTarget(h.scopes, s, declaration)
    IN  IF scope = NoScope
        THEN [h EXCEPT !.err = "Could not find parent function scope"]
        ELSE [h EXCEPT !.decls = Append(@, declaration),
                       !.scopes[scope].bindings = MapSet(@, name, Len(h.decls) + 1)]

Reference(identifier, referenceTo, referencedFromScope, writeExpr, isInitializer) ==
    [identifier          |-> identifier,
     referenceTo         |-> referenceTo,
     referencedFromScope |-> referencedFromScope,
     writeExpr           |-> writeExpr,
     isInitializer       |-> isInitializer]

RECURSIVE PathBefore(_, _)
PathBefore(p, q) ==
    IF p = <<>> THEN q # <<>>
    ELSE IF q = <<>> THEN FALSE
         ELSE IF Head(p) = Head(q) THEN PathBefore(Tail(p), Tail(q))
              ELSE Head(p) < Head(q)

\* faulty variant: resolution in a single pass, which sees only the bindings declared
\* textually before the identifier
AddReferenceSinglePass(h, s, node, writeExpr, isInitializer) ==
    LET found == GetBinding(h.scopes, s, At(node).text)
        binding == IF found # NoBinding
                      /\ PathBefore(h.decls[found.binding].declaringNode, node)
                   THEN found ELSE NoBinding
        reference == Len(h.refs) + 1
        linked == IF binding # NoBinding
                  THEN [h.decls EXCEPT ![binding.binding].references = Append(@, reference)]
                  ELSE h.decls
    IN  [h EXCEPT !.refs = Append(@, Reference(node, binding, s, writeExpr, isInitializer)),
                  !.decls = linked,
                  !.scopes[s].references = Append(@, reference)]

\* faulty variant: an identifier that resolves to nothing is dropped
AddReferenceResolvedOnly(h, s, node, writeExpr, isInitializer) ==
    LET binding == GetBinding(h.scopes, s, At(node).text)
        reference == Len(h.refs) + 1
    IN  IF binding = NoBinding THEN h
        ELSE [h EXCEPT !.refs = Append(@, Reference(node, binding, s, writeExpr,
                                                    isInitializer)),
                       !.decls[binding.binding].references = Append(@, reference),
                       !.scopes[s].references = Append(@, reference)]

\* faulty variant: the reference is not pushed onto the binding's list
AddReferenceNoBacklink(h, s, node, writeExpr, isInitializer) ==
    LET binding == GetBinding(h.scopes, s, At(node).text)
        reference == Len(h.refs) + 1
    IN  [h EXCEPT !.refs = Append(@, Reference(node, binding, s, writeExpr, isInitializer)),
                  !.scopes[s].references = Append(@, reference)]

\* node is an identifier's path; the reference object becomes refs[Len(refs) + 1]
AddReference(h, s, node, writeExpr, isInitializer) ==
    LET binding == GetBinding(h.scopes, s, At(node).text)
        reference == Len(h.refs) + 1
        linked == IF binding # NoBinding
                  THEN [h.decls EXCEPT ![binding.binding].references = Append(@, reference)]
                  ELSE h.decls
    IN  [h EXCEPT !.refs = Append(@, Reference(node, binding, s, writeExpr, isInitializer)),
                  !.decls = linked,
                  !.scopes[s].references = Append(@, reference)]

RECURSIVE GetAllReferencesRecursively(_, _), ConcatReferences(_, _, _)
\* faulty variant: the references of the child scopes come before the scope's own
GetAllReferencesChildrenFirst(S, s) ==
    ConcatReferences(S, S[s].childScopes, 1) \o S[s].references

ConcatReferences(S, children, i) ==
    IF i > Len(children) THEN <<>>
    ELSE GetAllReferencesRecursively(S, children[i]) \o ConcatReferences(S, children, i + 1)
GetAllReferencesRecursively(S, s) ==
    S[s].references \o ConcatReferences(S, S[s].childScopes, 1)

-----------------------------------------------------------------------------
(***************************************************************************)
(* The traversals run on an explicit call stack.  A frame is one pending   *)
(* call: visitNode of either pass, or the rest of a function that has      *)
(* recursive calls in its middle.                                          *)
(***************************************************************************)
Frame(op, node, scope, collectReferences, initializer) ==
    [op |-> op, node |-> node, scope |-> scope,
     collectReferences |-> collectReferences, initializer |-> initializer]

NoCall == [op |-> "", scope |-> NoScope, name |-> "", node |-> NoNode]

Heap == [scopes |-> scopes, decls |-> decls, refs |-> refs, err |-> err]

Top == Head(stack)

\* the heap becomes h; the frames replace the running call, unless it threw
Continue(h, frames) ==
    /\ scopes' = h.scopes
    /\ decls' = h.decls
    /\ refs' = h.refs
    /\ err' = h.err
    /\ call' = call
    /\ IF h.err # ""
       THEN pc' = "error" /\ stack' = <<>>
       ELSE pc' = pc /\ stack' = frames \o Tail(stack)

-----------------------------------------------------------------------------
(***************************************************************************)
(* Pass 1: findScopes.                                                     *)
(***************************************************************************)
Visit(node, scope) == Frame("visitNode", node, scope, FALSE, NoNode)

\* visitAllChildren: ts.forEachChild(node, child => visitNode(child, scope))
VisitAllChildren(node, scope) ==
    [i \in 1..Len(At(node).kids) |-> Visit(Append(node, i), scope)]

\* addAllChildren: result.set(child, scope) for the immediate children
AddAllChildren(map, node, scope) ==
    [c \in {Append(node, i) : i \in 1..Len(At(node).kids)} |-> scope] @@ map

VisitOptionalNode(node, scope) == IF node = NoNode THEN <<>> ELSE <<Visit(node, scope)>>

VisitOptionalNodes(nodes, scope) == [i \in 1..Len(nodes) |-> Visit(nodes[i], scope)]

RECURSIVE VisitBindingName(_, _, _, _, _, _), VisitBindingElements(_, _, _, _, _, _, _)
\* elements.forEach(el => visitBindingElement / visitArrayBindingElement (el, ...)),
\* left by the first call that throws
VisitBindingElements(h, elements, i, decl, scope, scopeKind, mutability) ==
    IF i > Len(elements) \/ h.err # "" THEN h
    ELSE VisitBindingElements(
             IF At(elements[i]).kind = "BindingElement"
             THEN VisitBindingName(h, Field(elements[i], "name"), decl, scope,
                                   scopeKind, mutability)
             ELSE h,
             elements, i + 1, decl, scope, scopeKind, mutability)

VisitBindingName(h, bindingName, decl, scope, scopeKind, mutability) ==
    IF IsIdentifier(At(bindingName))
    THEN AddBinding(h, scope, At(bindingName).text,
                    Declaration(decl, scopeKind, At(bindingName).text, mutability))
    ELSE IF At(bindingName).kind \in {"ObjectBindingPattern", "ArrayBindingPattern"}
         THEN VisitBindingElements(h, Fields(bindingName, "elements"), 1, decl, scope,
                                   scopeKind, mutability)
         ELSE h

InFindScopes(op) == pc = "findScopes" /\ stack # <<>> /\ Top.op = op

\* faulty variant: the block node is mapped to the scope it introduces
VisitBlockMapsToOwnScope ==
    /\ InFindScopes("visitNode")
    /\ IsBlock(At(Top.node))
    /\ LET node == Top.node
           blockScope == Len(scopes) + 1
           h == [Heap EXCEPT !.scopes = NewChildScope(scopes, Top.scope, "LexicalScope", node)]
           variableDeclaration == Field(Parent(node), "variableDeclaration")
       IN  /\ result' = MapSet(result, node, blockScope)
           /\ Continue(IF At(Parent(node)).kind = "CatchClause"
                          /\ variableDeclaration # NoNode
                       THEN VisitBindingName(h, Field(variableDeclaration, "name"),
                                             Parent(node), blockScope,
                                             "LexicalScope", "Mutable")
                       ELSE h,
                       VisitAllChildren(node, blockScope))
    /\ UNCHANGED sourceFile

\* visitNode on a block
VisitBlock ==
    /\ InFindScopes("visitNode")
    /\ IsBlock(At(Top.node))
    /\ LET node == Top.node
           blockScope == Len(scopes) + 1
           h == [Heap EXCEPT !.scopes = NewChildScope(scopes, Top.scope, "LexicalScope", node)]
           variableDeclaration == Field(Parent(node), "variableDeclaration")
       IN  /\ result' = MapSet(result, node, Top.scope)
           /\ Continue(IF At(Parent(node)).kind = "CatchClause"
                          /\ variableDeclaration # NoNode
                       THEN VisitBindingName(h, Field(variableDeclaration, "name"),
                                             Parent(node), blockScope,
                                             "LexicalScope", "Mutable")
                       ELSE h,
                       VisitAllChildren(node, blockScope))
    /\ UNCHANGED sourceFile

ImportBinding(node) == Declaration(node, "FunctionScope", At(Field(node, "name")).text, "Immutable")

\* faulty variant: `a as b` is bound under the imported name a
RECURSIVE AddImportSpecifiersImportedName(_, _, _, _)
AddImportSpecifiersImportedName(h, elements, i, scope) ==
    IF i > Len(elements) \/ h.err # "" THEN h
    ELSE LET imported == IF Field(elements[i], "propertyName") # NoNode
                         THEN Field(elements[i], "propertyName")
                         ELSE Field(elements[i], "name")
         IN  AddImportSpecifiersImportedName(
                 AddBinding(h, scope, At(imported).text,
                            Declaration(elements[i], "FunctionScope", At(imported).text,
                                        "Immutable")),
                 elements, i + 1, scope)

RECURSIVE AddImportSpecifiers(_, _, _, _)
AddImportSpecifiers(h, elements, i, scope) ==
    IF i > Len(elements) \/ h.err # "" THEN h
    ELSE AddImportSpecifiers(
             AddBinding(h, scope, At(Field(elements[i], "name")).text,
                        ImportBinding(elements[i])),
             elements, i + 1, scope)

\* visitNode on an import clause
VisitImportClause ==
    /\ InFindScopes("visitNode")
    /\ At(Top.node).kind = "ImportClause"
    /\ LET node == Top.node
           scope == Top.scope
           namedBindings == Field(node, "namedBindings")
           h1 == IF Field(node, "name") # NoNode
                 THEN AddBinding(Heap, scope, At(Field(node, "name")).text,
                                 ImportBinding(node))
                 ELSE Heap
           h2 == IF namedBindings = NoNode \/ h1.err # "" THEN h1
                 ELSE IF At(namedBindings).kind = "NamespaceImport"
                      THEN AddBinding(h1, scope, At(Field(namedBindings, "name")).text,
                                      ImportBinding(namedBindings))
                      ELSE AddImportSpecifiers(h1, Fields(namedBindings, "elements"), 1, scope)
       IN  /\ result' = MapSet(result, node, scope)
           /\ Continue(h2, VisitAllChildren(node, scope))
    /\ UNCHANGED sourceFile

\* visitNode on a function-like; visitFunctionLike up to the visits of the type
\* parameters and the return type
VisitFunctionLike ==
    /\ InFindScopes("visitNode")
    /\ IsFunctionLike(At(Top.node))
    /\ LET functionLike == Top.node
           scope == Top.scope
       IN  /\ result' = AddAllChildren(MapSet(result, functionLike, scope), functionLike, scope)
           /\ Continue(Heap,
                       VisitOptionalNodes(Fields(functionLike, "typeParameters"), scope)
                       \o VisitOptionalNode(Field(functionLike, "type"), scope)
                       \o <<Frame("visitFunctionLikeName", functionLike, scope, FALSE, NoNode)>>)
    /\ UNCHANGED sourceFile

\* faulty variant: a block body is visited like any other block and gets a scope
\* of its own
VisitFunctionBodyAsBlock(functionLike, functionScope) ==
    LET body == Field(functionLike, "body")
    IN  IF At(functionLike).kind \notin FunctionLikeDeclarationKinds \/ body = NoNode
        THEN <<>>
        ELSE <<Visit(body, functionScope)>>

\* what visitFunctionLike does with functionLike.body in functionScope
VisitFunctionBody(functionLike, functionScope) ==
    LET body == Field(functionLike, "body")
    IN  IF At(functionLike).kind \notin FunctionLikeDeclarationKinds \/ body = NoNode
        THEN <<>>
        ELSE IF IsBlock(At(body))
             THEN <<Frame("visitBody", body, functionScope, FALSE, NoNode)>>
             ELSE <<Visit(body, functionScope)>>

\* faulty variant: the function's name is hoisted like a var
FunctionNameBindingHoisted(h, functionLike, scope) ==
    LET name == Field(functionLike, "name")
    IN  IF name # NoNode
           /\ At(functionLike).kind \in {"FunctionDeclaration", "FunctionExpression"}
           /\ IsIdentifier(At(name))
        THEN AddBinding(h, scope, At(name).text,
                        Declaration(functionLike, "FunctionScope", At(name).text,
                                    "Immutable"))
        ELSE h

\* the binding visitFunctionLike adds for functionLike.name
FunctionNameBinding(h, functionLike, scope) ==
    LET name == Field(functionLike, "name")
    IN  IF name # NoNode
           /\ At(functionLike).kind \in {"FunctionDeclaration", "FunctionExpression"}
           /\ IsIdentifier(At(name))
        THEN AddBinding(h, scope, At(name).text,
                        Declaration(functionLike, "LexicalScope", At(name).text,
                                    "Immutable"))
        ELSE h

\* visitFunctionLike from the name on: the name's binding, the function scope,
\* then the parameters and the body
VisitFunctionLikeName ==
    /\ InFindScopes("visitFunctionLikeName")
    /\ LET functionLike == Top.node
           scope == Top.scope
           name == Field(functionLike, "name")
           h1 == FunctionNameBinding(Heap, functionLike, scope)
           functionScope == Len(scopes) + 1
           h2 == IF h1.err # "" THEN h1
                 ELSE [h1 EXCEPT !.scopes = NewChildScope(@, scope, "FunctionScope", functionLike)]
           parameters == Fields(functionLike, "parameters")
       IN  /\ result' = IF name = NoNode THEN result
                        ELSE AddAllChildren(MapSet(result, name, scope), name, scope)
           /\ Continue(h2,
                       [i \in 1..Len(parameters) |->
                           Frame("visitParameterDeclaration", parameters[i], functionScope,
                                 FALSE, NoNode)]
                       \o VisitFunctionBody(functionLike, functionScope))
    /\ UNCHANGED sourceFile

\* visitParameterDeclaration: visitNode(paramDecl, scope), then the bindings
VisitParameterDeclaration ==
    /\ InFindScopes("visitParameterDeclaration")
    /\ Continue(Heap, <<Visit(Top.node, Top.scope),
                        Frame("addParameterBindings", Top.node, Top.scope, FALSE, NoNode)>>)
    /\ UNCHANGED <<sourceFile, result>>

\* faulty variant: only a plain identifier is bound, a destructured parameter binds nothing
ParameterBindingsPlainOnly(h, paramDecl, scope) ==
    LET name == Field(paramDecl, "name")
    IN  IF IsIdentifier(At(name))
        THEN AddBinding(h, scope, At(name).text,
                        Declaration(paramDecl, "FunctionScope", At(name).text, "Mutable"))
        ELSE h

\* the bindings visitParameterDeclaration adds for paramDecl.name
ParameterBindings(h, paramDecl, scope) ==
    LET name == Field(paramDecl, "name")
    IN  IF IsIdentifier(At(name))
        THEN AddBinding(h, scope, At(name).text,
                        Declaration(paramDecl, "FunctionScope", At(name).text, "Mutable"))
        ELSE VisitBindingElements(h, Fields(name, "elements"), 1, paramDecl, scope,
                                  "FunctionScope", "Mutable")

AddParameterBindings ==
    /\ InFindScopes("addParameterBindings")
    /\ Continue(ParameterBindings(Heap, Top.node, Top.scope), <<>>)
    /\ UNCHANGED <<sourceFile, result>>

\* result.set(body, scope); visitAllChildren(body, scope): a block that is the body
\* of a function or of a loop
VisitBody ==
    /\ InFindScopes("visitBody")
    /\ result' = MapSet(result, Top.node, Top.scope)
    /\ Continue(Heap, VisitAllChildren(Top.node, Top.scope))
    /\ UNCHANGED sourceFile

\* faulty variant: the class name is bound like a function's name, LexicalScope,
\* and so stays in the block the class is declared in
ClassBindingsLexicalName(h, node, scope) ==
    LET name == Field(node, "name")
        h1 == IF name # NoNode
              THEN AddBinding(h, scope, At(name).text,
                              Declaration(node, "LexicalScope", At(name).text, "Immutable"))
              ELSE h
        classScope == Len(h.scopes) + 1
    IN  IF h1.err # "" THEN h1
        ELSE AddBinding(
                 [h1 EXCEPT !.scopes = NewChildScope(@, scope, "FunctionScope", node)],
                 classScope, "this",
                 Declaration(node, "FunctionScope", "this", "Immutable"))

\* the class name's binding, the class scope and its `this` binding
ClassBindings(h, node, scope) ==
    LET name == Field(node, "name")
        h1 == IF name # NoNode
              THEN AddBinding(h, scope, At(name).text,
                              Declaration(node, "FunctionScope", At(name).text, "Immutable"))
              ELSE h
        classScope == Len(h.scopes) + 1
    IN  IF h1.err # "" THEN h1
        ELSE AddBinding(
                 [h1 EXCEPT !.scopes = NewChildScope(@, scope, "FunctionScope", node)],
                 classScope, "this",
                 Declaration(node, "FunctionScope", "this", "Immutable"))

\* visitNode on a class declaration or class expression
VisitClassLike ==
    /\ InFindScopes("visitNode")
    /\ IsClassLike(At(Top.node))
    /\ LET node == Top.node
           scope == Top.scope
           classScope == Len(scopes) + 1
       IN  /\ result' = MapSet(result, node, scope)
           /\ Continue(ClassBindings(Heap, node, scope), VisitAllChildren(node, classScope))
    /\ UNCHANGED sourceFile

\* faulty variant: a loop gets no scope of its own, its head and its body are
\* visited in the containing scope
VisitForLoopNoScope ==
    /\ InFindScopes("visitNode")
    /\ IsForLoop(At(Top.node))
    /\ LET node == Top.node
           scope == Top.scope
       IN  /\ result' = AddAllChildren(MapSet(result, node, scope), node, scope)
           /\ Continue(Heap,
                       VisitOptionalNode(Field(node, "initializer"), scope)
                       \o VisitOptionalNode(Field(node, "condition"), scope)
                       \o VisitOptionalNode(Field(node, "incrementor"), scope)
                       \o VisitOptionalNode(Field(node, "expression"), scope)
                       \o <<Visit(Field(node, "statement"), scope)>>)
    /\ UNCHANGED sourceFile

\* faulty variant: the iterated expression of a for-in or for-of statement is
\* visited in the loop scope
VisitForLoopExpressionInLoopScope ==
    /\ InFindScopes("visitNode")
    /\ IsForLoop(At(Top.node))
    /\ LET node == Top.node
           scope == Top.scope
           forScope == Len(scopes) + 1
           statement == Field(node, "statement")
       IN  /\ result' = AddAllChildren(MapSet(result, node, scope), node, scope)
           /\ Continue([Heap EXCEPT !.scopes = NewChildScope(@, scope, "LexicalScope", node)],
                       VisitOptionalNode(Field(node, "initializer"), forScope)
                       \o VisitOptionalNode(Field(node, "condition"), forScope)
                       \o VisitOptionalNode(Field(node, "incrementor"), forScope)
                       \o VisitOptionalNode(Field(node, "expression"), forScope)
                       \o (IF IsBlock(At(statement))
                           THEN <<Frame("visitBody", statement, forScope, FALSE, NoNode)>>
                           ELSE <<Visit(statement, forScope)>>))
    /\ UNCHANGED sourceFile

\* visitNode on a for, for-in or for-of statement
VisitForLoop ==
    /\ InFindScopes("visitNode")
    /\ IsForLoop(At(Top.node))
    /\ LET node == Top.node
           scope == Top.scope
           forScope == Len(scopes) + 1
           statement == Field(node, "statement")
       IN  /\ result' = AddAllChildren(MapSet(result, node, scope), node, scope)
           /\ Continue([Heap EXCEPT !.scopes = NewChildScope(@, scope, "LexicalScope", node)],
                       VisitOptionalNode(Field(node, "initializer"), forScope)
                       \o (IF At(node).kind = "ForStatement"
                           THEN VisitOptionalNode(Field(node, "condition"), forScope)
                                \o VisitOptionalNode(Field(node, "incrementor"), forScope)
                           ELSE <<Visit(Field(node, "expression"), scope)>>)
                       \o (IF IsBlock(At(statement))
                           THEN <<Frame("visitBody", statement, forScope, FALSE, NoNode)>>
                           ELSE <<Visit(statement, forScope)>>))
    /\ UNCHANGED sourceFile

HasSpecialVisit(n) ==
    \/ IsBlock(n) \/ n.kind = "ImportClause" \/ IsFunctionLike(n)
    \/ IsClassLike(n) \/ IsForLoop(n)

\* visitNode on a variable declaration
VisitVariableDeclaration ==
    /\ InFindScopes("visitNode")
    /\ At(Top.node).kind = "VariableDeclaration"
    /\ LET node == Top.node
           flags == At(Parent(node)).flags
       IN  /\ result' = MapSet(result, node, Top.scope)
           /\ Continue(IF At(Parent(node)).kind = "VariableDeclarationList"
                       THEN VisitBindingName(Heap, Field(node, "name"), node, Top.scope,
                                             IF BlockScoped(flags) THEN "LexicalScope"
                                                                   ELSE "FunctionScope",
                                             IF Const(flags) THEN "Immutable" ELSE "Mutable")
                       ELSE Heap,
                       VisitAllChildren(node, Top.scope))
    /\ UNCHANGED sourceFile

\* visitNode on any other node
VisitOtherNode ==
    /\ InFindScopes("visitNode")
    /\ ~HasSpecialVisit(At(Top.node))
    /\ At(Top.node).kind # "VariableDeclaration"
    /\ result' = MapSet(result, Top.node, Top.scope)
    /\ Continue(Heap, VisitAllChildren(Top.node, Top.scope))
    /\ UNCHANGED sourceFile

-----------------------------------------------------------------------------
(***************************************************************************)
(* Pass 2: assignReferences.                                               *)
(***************************************************************************)
Visit2(node, collectReferences, initializer) ==
    Frame("visitNode", node, NoScope, collectReferences, initializer)

\* visitNode(node.<role>, collectReferences, initializer) of an optional property
VisitField(node, role, collectReferences, initializer) ==
    IF Field(node, role) = NoNode THEN <<>>
    ELSE <<Visit2(Field(node, role), collectReferences, initializer)>>

\* visitNode(node.<role>, collectReferences) of a NodeArray property
VisitArray(node, role, collectReferences) ==
    LET nodes == Fields(node, role)
    IN  [i \in 1..Len(nodes) |-> Visit2(nodes[i], collectReferences, NoNode)]

\* ts.forEachChild(node, child => visitNode(child, collectReferences))
VisitChildren(node, collectReferences) ==
    [i \in 1..Len(At(node).kids) |-> Visit2(Append(node, i), collectReferences, NoNode)]

IsAssignment(n) ==
    /\ n.kind = "BinaryExpression"
    /\ \E i \in 1..Len(n.kids) :
           n.kids[i].role = "operatorToken" /\ n.kids[i].kind = "EqualsToken"

JsxKinds ==
    {"JsxOpeningElement", "JsxClosingElement", "JsxSelfClosingElement", "JsxExpression",
     "JsxAttribute", "JsxSpreadAttribute"}

\* faulty variant: the tag name of a closing element is not recorded
JsxVisitsOpeningTagOnly(node) ==
    LET kind == At(node).kind
    IN  CASE kind \in {"JsxOpeningElement", "JsxSelfClosingElement"} ->
                 VisitField(node, "tagName", TRUE, NoNode)
                 \o VisitField(node, "attributes", FALSE, NoNode)
          [] kind = "JsxClosingElement" -> VisitField(node, "tagName", FALSE, NoNode)
          [] kind \in {"JsxExpression", "JsxSpreadAttribute"} ->
                 VisitField(node, "expression", TRUE, NoNode)
          [] kind = "JsxAttribute" ->
                 VisitField(node, "name", FALSE, NoNode)
                 \o VisitField(node, "initializer", TRUE, NoNode)

\* the calls visitNode makes on a JSX opening, closing or self-closing element, a
\* JSX expression container, an attribute or a spread attribute
JsxVisits(node) ==
    LET kind == At(node).kind
    IN  CASE kind = "JsxOpeningElement" ->
                 VisitField(node, "tagName", TRUE, NoNode)
                 \o VisitField(node, "attributes", FALSE, NoNode)
          [] kind = "JsxClosingElement" -> VisitField(node, "tagName", TRUE, NoNode)
          [] kind = "JsxSelfClosingElement" ->
                 VisitField(node, "tagName", TRUE, NoNode)
                 \o VisitField(node, "attributes", FALSE, NoNode)
          [] kind = "JsxExpression" -> VisitField(node, "expression", TRUE, NoNode)
          [] kind = "JsxAttribute" ->
                 VisitField(node, "name", FALSE, NoNode)
                 \o VisitField(node, "initializer", TRUE, NoNode)
          [] kind = "JsxSpreadAttribute" -> VisitField(node, "expression", TRUE, NoNode)

\* the calls visitNode makes on a node that is no type node, no identifier in
\* read position and no simple assignment
Visits(node, collectReferences) ==
    LET kind == At(node).kind
    IN  CASE kind = "VariableDeclaration" ->
                 VisitField(node, "initializer", TRUE, NoNode)
                 \o VisitField(node, "name", TRUE, Field(node, "initializer"))
          [] kind = "ExpressionStatement" -> VisitField(node, "expression", TRUE, NoNode)
          [] kind = "ReturnStatement" -> VisitField(node, "expression", TRUE, NoNode)
          [] kind = "ThrowStatement" -> VisitField(node, "expression", TRUE, NoNode)
          [] kind = "PropertyAccessExpression" ->
                 VisitField(node, "expression", collectReferences, NoNode)
                 \o VisitField(node, "name", FALSE, NoNode)
          [] kind = "ElementAccessExpression" ->
                 VisitField(node, "expression", collectReferences, NoNode)
                 \o VisitField(node, "argumentExpression", TRUE, NoNode)
          [] kind = "CallExpression" ->
                 VisitField(node, "expression", TRUE, NoNode)
                 \o VisitArray(node, "arguments", TRUE)
          [] kind = "ArrowFunction" ->
                 VisitArray(node, "parameters", FALSE)
                 \o VisitField(node, "body", ~IsBlock(At(Field(node, "body"))), NoNode)
          [] IsFunctionLike(At(node)) /\ kind # "ArrowFunction" /\ collectReferences ->
                 <<Visit2(node, FALSE, NoNode)>>
          [] kind = "Parameter" ->
                 VisitField(node, "name", FALSE, NoNode)
                 \o VisitField(node, "initializer", TRUE, NoNode)
          [] kind = "IfStatement" ->
                 VisitField(node, "expression", TRUE, NoNode)
                 \o VisitField(node, "thenStatement", FALSE, NoNode)
                 \o VisitField(node, "elseStatement", FALSE, NoNode)
          [] kind \in {"ForInStatement", "ForOfStatement"} ->
                 VisitField(node, "expression", TRUE, NoNode)
                 \o VisitField(node, "initializer", TRUE, Field(node, "expression"))
                 \o VisitField(node, "statement", FALSE, NoNode)
          [] kind = "ForStatement" ->
                 VisitField(node, "initializer", TRUE, NoNode)
                 \o VisitField(node, "condition", TRUE, NoNode)
                 \o VisitField(node, "incrementor", TRUE, NoNode)
                 \o VisitField(node, "statement", FALSE, NoNode)
          [] kind = "WhileStatement" ->
                 VisitField(node, "expression", TRUE, NoNode)
                 \o VisitField(node, "statement", FALSE, NoNode)
          [] kind = "SwitchStatement" ->
                 VisitField(node, "expression", TRUE, NoNode)
                 \o VisitField(node, "caseBlock", FALSE, NoNode)
          [] kind = "CaseClause" ->
                 VisitField(node, "expression", TRUE, NoNode)
                 \o VisitArray(node, "statements", FALSE)
          [] kind \in JsxKinds -> JsxVisits(node)
          [] kind = "PropertyAssignment" ->
                 VisitField(node, "name", FALSE, NoNode)
                 \o VisitField(node, "initializer", TRUE, NoNode)
          [] kind = "ComputedPropertyName" -> VisitField(node, "expression", TRUE, NoNode)
          [] OTHER -> VisitChildren(node, collectReferences)

\* getScope: the heap with the error set when the node has no scope
GetScope(h, node) ==
    IF MapHas(result, node) THEN h ELSE [h EXCEPT !.err = "Scope not found"]

InAssignReferences == pc = "assignReferences" /\ stack # <<>>

\* faulty variant: a type node is walked like any other node
SkipTypeNodeDescends ==
    /\ InAssignReferences
    /\ IsTypeNode(At(Top.node))
    /\ Continue(Heap, VisitChildren(Top.node, Top.collectReferences))
    /\ UNCHANGED <<sourceFile, result>>

\* visitNode on a type node
SkipTypeNode ==
    /\ InAssignReferences
    /\ IsTypeNode(At(Top.node))
    /\ Continue(Heap, <<>>)
    /\ UNCHANGED <<sourceFile, result>>

\* faulty variant: the initializer handed down by the declaration is ignored
IdentifierReferenceAsRead(h, node, initializer) ==
    IF ~MapHas(result, node) THEN GetScope(h, node)
    ELSE IF At(node).text = "" THEN h
         ELSE AddReference(h, result[node], node, NoNode, FALSE)

\* what visitNode does with an identifier in read position
IdentifierReference(h, node, initializer) ==
    IF ~MapHas(result, node) THEN GetScope(h, node)
    ELSE IF At(node).text = "" THEN h
         ELSE IF initializer = NoNode
              THEN AddReference(h, result[node], node, NoNode, FALSE)
              ELSE AddReference(h, result[node], node, initializer, TRUE)

\* visitNode on an identifier with collectReferences set
VisitIdentifier ==
    /\ InAssignReferences
    /\ ~IsTypeNode(At(Top.node))
    /\ IsIdentifier(At(Top.node)) /\ Top.collectReferences
    /\ Continue(IdentifierReference(Heap, Top.node, Top.initializer), <<>>)
    /\ UNCHANGED <<sourceFile, result>>

\* faulty variant: the left side of an assignment is recorded as a read
AssignmentReferenceAsRead(h, node) ==
    IF ~IsIdentifier(At(Field(node, "left"))) THEN h
    ELSE IF ~MapHas(result, node) THEN GetScope(h, node)
         ELSE AddReference(h, result[node], Field(node, "left"), NoNode, FALSE)

\* what visitNode does with the left side of a simple assignment
AssignmentReference(h, node) ==
    IF ~IsIdentifier(At(Field(node, "left"))) THEN h
    ELSE IF ~MapHas(result, node) THEN GetScope(h, node)
         ELSE AddReference(h, result[node], Field(node, "left"), Field(node, "right"), FALSE)

\* faulty variant: the left side of an assignment is recorded and then visited as
\* well
VisitAssignmentVisitsLeft ==
    /\ InAssignReferences
    /\ ~IsTypeNode(At(Top.node))
    /\ IsAssignment(At(Top.node))
    /\ Continue(AssignmentReference(Heap, Top.node),
                VisitField(Top.node, "left", TRUE, NoNode)
                \o VisitField(Top.node, "right", TRUE, NoNode))
    /\ UNCHANGED <<sourceFile, result>>

\* visitNode on a binary expression whose operator is =
VisitAssignment ==
    /\ InAssignReferences
    /\ ~IsTypeNode(At(Top.node))
    /\ IsAssignment(At(Top.node))
    /\ Continue(AssignmentReference(Heap, Top.node),
                (IF IsIdentifier(At(Field(Top.node, "left"))) THEN <<>>
                 ELSE VisitField(Top.node, "left", TRUE, NoNode))
                \o VisitField(Top.node, "right", TRUE, NoNode))
    /\ UNCHANGED <<sourceFile, result>>

\* visitNode on every other node
VisitOther ==
    /\ InAssignReferences
    /\ ~IsTypeNode(At(Top.node))
    /\ ~(IsIdentifier(At(Top.node)) /\ Top.collectReferences)
    /\ ~IsAssignment(At(Top.node))
    /\ Continue(Heap, Visits(Top.node, Top.collectReferences))
    /\ UNCHANGED <<sourceFile, result>>

-----------------------------------------------------------------------------
(***************************************************************************)
(* new SourceFileScopesContainer(sourceFile)                               *)
(***************************************************************************)
\* findScopes returned: assignReferences(this.scopes, sourceFile)
AssignReferences ==
    /\ pc = "findScopes" /\ stack = <<>>
    /\ pc' = "assignReferences"
    /\ stack' = <<Visit2(<<>>, FALSE, NoNode)>>
    /\ UNCHANGED <<sourceFile, result, scopes, decls, refs, err, call>>

\* assignReferences returned: the constructor returns
Constructed ==
    /\ pc = "assignReferences" /\ stack = <<>>
    /\ pc' = "done"
    /\ UNCHANGED <<sourceFile, stack, result, scopes, decls, refs, err, call>>

\* getScopeForNode: whether the lookup succeeds
GetScopeForNode(node) == MapHas(result, node)

-----------------------------------------------------------------------------
(***************************************************************************)
(* The syntax trees the constructor is run on.                             *)
(***************************************************************************)
FunctionDeclaration(name, params, stmts) ==
    FunctionLike("FunctionDeclaration", Id(name), params, None, Block(stmts))

\* const a = b;
ConstAB == SourceFile(<<VarStmt({"Const"}, <<VarDecl(Id("a"), None, Id("b"))>>)>>)

\* const x: typeof z = y as typeof z;
TypedConst ==
    SourceFile(<<VarStmt({"Const"},
                     <<VarDecl(Id("x"), TypeQuery("z"),
                               AsExpression(Id("y"), TypeQuery("z")))>>)>>)

\* let x; x = y;
AssignBound ==
    SourceFile(<<VarStmt({"Let"}, <<VarDecl(Id("x"), None, None)>>),
                 ExprStmt(Assign(Id("x"), Id("y")))>>)

\* x = y;  f(x = y.z);
AssignFree ==
    SourceFile(<<ExprStmt(Assign(Id("x"), Id("y"))),
                 ExprStmt(Call(Id("f"), <<Assign(Id("x"), PropertyAccess(Id("y"), "z"))>>))>>)

\* function f({a, b: [c]}) {}
Destructure ==
    SourceFile(<<FunctionDeclaration("f",
        <<Param(ObjectPattern(<<BindingElement(None, Id("a")),
                                BindingElement(Id("b"),
                                    ArrayPattern(<<BindingElement(None, Id("c"))>>))>>),
                None)>>,
        <<>>)>>)

\* const [x, z] = [1, 2]; function myFunction({y, hans: [x]}) { return x + y; }
SimpleFunctionScope ==
    SourceFile(<<VarStmt({"Const"},
                     <<VarDecl(ArrayPattern(<<BindingElement(None, Id("x")),
                                              BindingElement(None, Id("z"))>>),
                               None,
                               Node("ArrayLiteralExpression", "", {},
                                    Each("elements", <<Num, Num>>)))>>),
                 FunctionDeclaration("myFunction",
                     <<Param(ObjectPattern(<<BindingElement(None, Id("y")),
                                             BindingElement(Id("hans"),
                                                 ArrayPattern(<<BindingElement(None,
                                                                               Id("x"))>>))>>),
                             None)>>,
                     <<Return(Binary(Id("x"), "PlusToken", Id("y")))>>)>>)

\* class MyClass { myMemberFunction([y], ...args) { } }
MemberFunction ==
    SourceFile(<<Class("ClassDeclaration", Id("MyClass"),
        <<FunctionLike("MethodDeclaration", Id("myMemberFunction"),
              <<Param(ArrayPattern(<<BindingElement(None, Id("y"))>>), None),
                RestParam(Id("args"))>>,
              None, Block(<<>>))>>)>>)

\* function g([, d], e = d) { return d + e; }
OmittedElement ==
    SourceFile(<<FunctionDeclaration("g",
        <<Param(ArrayPattern(<<Omitted, BindingElement(None, Id("d"))>>), None),
          Param(Id("e"), Id("d"))>>,
        <<Return(Binary(Id("d"), "PlusToken", Id("e")))>>)>>)

\* {var i = 0; function myFunction() {}}
FunctionScoped ==
    SourceFile(<<Block(<<VarStmt({}, <<VarDecl(Id("i"), None, Num)>>),
                         FunctionDeclaration("myFunction", <<>>, <<>>)>>)>>)

\* function f() { g(); }  function g() { f(); }
MutualRecursion ==
    SourceFile(<<FunctionDeclaration("f", <<>>, <<ExprStmt(Call(Id("g"), <<>>))>>),
                 FunctionDeclaration("g", <<>>, <<ExprStmt(Call(Id("f"), <<>>))>>)>>)

\* a; let a = u;
UseBeforeDeclaration ==
    SourceFile(<<ExprStmt(Id("a")),
                 VarStmt({"Let"}, <<VarDecl(Id("a"), None, Id("u"))>>)>>)

\* let x; { let x; x; } { x; }
Shadowing ==
    SourceFile(<<VarStmt({"Let"}, <<VarDecl(Id("x"), None, None)>>),
                 Block(<<VarStmt({"Let"}, <<VarDecl(Id("x"), None, None)>>),
                         ExprStmt(Id("x"))>>),
                 Block(<<ExprStmt(Id("x"))>>)>>)

\* class A { [a]() {} }
ComputedMethod ==
    SourceFile(<<Class("ClassDeclaration", Id("A"),
        <<FunctionLike("MethodDeclaration", ComputedName(Id("a")), <<>>, None,
                       Block(<<>>))>>)>>)

\* class A { [a.b]() {} }
ComputedAccessMethod ==
    SourceFile(<<Class("ClassDeclaration", Id("A"),
        <<FunctionLike("MethodDeclaration", ComputedName(PropertyAccess(Id("a"), "b")),
                       <<>>, None, Block(<<>>))>>)>>)

\* class A { ["a" + "b"]() {} }
ComputedConcatMethod ==
    SourceFile(<<Class("ClassDeclaration", Id("A"),
        <<FunctionLike("MethodDeclaration",
                       ComputedName(Binary(Node("StringLiteral", "a", {}, <<>>), "PlusToken",
                                           Node("StringLiteral", "b", {}, <<>>))),
                       <<>>, None, Block(<<>>))>>)>>)

\* class A { @d.e m() {} }
DecoratedMember ==
    SourceFile(<<Class("ClassDeclaration", Id("A"),
                       <<DecoratedMethod(PropertyAccess(Id("d"), "e"), "m")>>)>>)

\* class B { p = x = y; }
PropertyInitializer ==
    SourceFile(<<Class("ClassDeclaration", Id("B"),
        <<Node("PropertyDeclaration", "", {},
               <<As("name", Id("p")), As("initializer", Assign(Id("x"), Id("y")))>>)>>)>>)

\* import d, { y, h as s } from 'm'; import * as ts from 'm'; s;
Imports ==
    SourceFile(<<Import(Id("d"), NamedImports(<<ImportSpecifier(None, Id("y")),
                                                ImportSpecifier(Id("h"), Id("s"))>>)),
                 Import(None, NamespaceImport(Id("ts"))),
                 ExprStmt(Id("s"))>>)

\* for (let i = 0; i; i) { var v = i; }  for (const k of xs) k;
Loops ==
    SourceFile(<<For(VarList({"Let"}, <<VarDecl(Id("i"), None, Num)>>), Id("i"), Id("i"),
                     Block(<<VarStmt({}, <<VarDecl(Id("v"), None, Id("i"))>>)>>)),
                 ForInOf("ForOfStatement",
                         VarList({"Const"}, <<VarDecl(Id("k"), None, None)>>),
                         Id("xs"), ExprStmt(Id("k")))>>)

LoopKinds == {"ForStatement", "ForInStatement", "ForOfStatement"}
LoopKeywords == {{"Let"}, {"Const"}}

\* let i;  for (<keyword> i of xs) { i; }  i;      also for-in, and
\* let i;  for (<keyword> i = 0; i; ) { i; }  i;   with and without the braces
LoopFreshness(kind, keyword, braces) ==
    LET initializer ==
            VarList(keyword, <<VarDecl(Id("i"), None,
                                       IF kind = "ForStatement" THEN Num ELSE None)>>)
        statement == IF braces THEN Block(<<ExprStmt(Id("i"))>>) ELSE ExprStmt(Id("i"))
    IN  SourceFile(<<VarStmt({"Let"}, <<VarDecl(Id("i"), None, None)>>),
                     IF kind = "ForStatement"
                     THEN For(initializer, Id("i"), None, statement)
                     ELSE ForInOf(kind, initializer, Id("xs"), statement),
                     ExprStmt(Id("i"))>>)

LoopPrograms ==
    {LoopFreshness(kind, keyword, braces) :
        kind \in LoopKinds, keyword \in LoopKeywords, braces \in BOOLEAN}

\* let i;  for (i of xs) i;
ForOfAssigned ==
    SourceFile(<<VarStmt({"Let"}, <<VarDecl(Id("i"), None, None)>>),
                 ForInOf("ForOfStatement", Id("i"), Id("xs"), ExprStmt(Id("i")))>>)

\* for (let i of y) { function myFunction() {} }
ForOfFunction ==
    SourceFile(<<ForInOf("ForOfStatement",
                         VarList({"Let"}, <<VarDecl(Id("i"), None, None)>>), Id("y"),
                         Block(<<FunctionDeclaration("myFunction", <<>>, <<>>)>>))>>)

\* let x;  for (let x of x) { x; }  for (const k in k.m) k;
ForInOfSelf ==
    SourceFile(<<VarStmt({"Let"}, <<VarDecl(Id("x"), None, None)>>),
                 ForInOf("ForOfStatement",
                         VarList({"Let"}, <<VarDecl(Id("x"), None, None)>>), Id("x"),
                         Block(<<ExprStmt(Id("x"))>>)),
                 ForInOf("ForInStatement",
                         VarList({"Const"}, <<VarDecl(Id("k"), None, None)>>),
                         PropertyAccess(Id("k"), "m"), ExprStmt(Id("k")))>>)

\* function f(a) { let b; { let c; } }  for (let i of xs) { const j = i; }
\* const g = (p) => { var q; };  if (x) { let y; }
BodyDeclarations ==
    SourceFile(<<FunctionDeclaration("f", <<Param(Id("a"), None)>>,
                     <<VarStmt({"Let"}, <<VarDecl(Id("b"), None, None)>>),
                       Block(<<VarStmt({"Let"}, <<VarDecl(Id("c"), None, None)>>)>>)>>),
                 ForInOf("ForOfStatement",
                         VarList({"Let"}, <<VarDecl(Id("i"), None, None)>>), Id("xs"),
                         Block(<<VarStmt({"Const"}, <<VarDecl(Id("j"), None, Id("i"))>>)>>)),
                 VarStmt({"Const"},
                     <<VarDecl(Id("g"), None,
                           FunctionLike("ArrowFunction", None, <<Param(Id("p"), None)>>, None,
                               Block(<<VarStmt({}, <<VarDecl(Id("q"), None, None)>>)>>)))>>),
                 If(Id("x"), Block(<<VarStmt({"Let"}, <<VarDecl(Id("y"), None, None)>>)>>),
                    None)>>)

\* const x: typeof z = { id: 'value', scrollTop: y as typeof z };
ObjectLiterals ==
    SourceFile(<<VarStmt({"Const"},
                     <<VarDecl(Id("x"), TypeQuery("z"),
                           ObjectLiteral(<<PropertyAssignment("id", StringLiteral),
                                           PropertyAssignment("scrollTop",
                                               AsExpression(Id("y"), TypeQuery("z")))>>))>>)>>)

\* function f(a): T { return a as U; }  g(b as typeof c);
TypedFunction ==
    SourceFile(<<FunctionLike("FunctionDeclaration", Id("f"), <<Param(Id("a"), None)>>,
                              TypeReference("T"),
                              Block(<<Return(AsExpression(Id("a"), TypeReference("U")))>>)),
                 ExprStmt(Call(Id("g"), <<AsExpression(Id("b"), TypeQuery("c"))>>))>>)

\* const x = <MyXMLElement property={value} {...values} />;
\* const y = <><MyOtherElement property2={value2} {...values2}>Text{var}</MyOtherElement></>;
\* ({var} parses to an expression container around an identifier with empty text)
JsxExpressions ==
    SourceFile(<<VarStmt({"Const"},
                     <<VarDecl(Id("x"), None,
                           JsxSelfClosingElement(Id("MyXMLElement"),
                               <<JsxAttribute("property", JsxExpression(Id("value"))),
                                 JsxSpreadAttribute(Id("values"))>>))>>),
                 VarStmt({"Const"},
                     <<VarDecl(Id("y"), None,
                           JsxFragment(<<JsxElement(Id("MyOtherElement"),
                               <<JsxAttribute("property2", JsxExpression(Id("value2"))),
                                 JsxSpreadAttribute(Id("values2"))>>,
                               <<JsxText, JsxExpression(Id(""))>>)>>))>>)>>)

\* function C(p) { return <div id={p.id} hidden>{p}<B {...p} key="k" /></div>; }
\* class K { q = <A b={c} />; }
JsxNested ==
    SourceFile(<<FunctionDeclaration("C", <<Param(Id("p"), None)>>,
                     <<Return(JsxElement(Id("div"),
                           <<JsxAttribute("id", JsxExpression(PropertyAccess(Id("p"), "id"))),
                             JsxAttribute("hidden", None)>>,
                           <<JsxExpression(Id("p")),
                             JsxSelfClosingElement(Id("B"),
                                 <<JsxSpreadAttribute(Id("p")),
                                   JsxAttribute("key", StringLiteral)>>)>>))>>),
                 Class("ClassDeclaration", Id("K"),
                     <<Node("PropertyDeclaration", "", {},
                            <<As("name", Id("q")),
                              As("initializer",
                                 JsxSelfClosingElement(Id("A"),
                                     <<JsxAttribute("b", JsxExpression(Id("c")))>>))>>)>>)>>)

This == Tok("ThisKeyword")

\* class K { constructor(a) { this; }  get p() { return this; }  set p(v) { }
\*           m() { return () => this; } }
ClassMembers ==
    SourceFile(<<Class("ClassDeclaration", Id("K"),
        <<FunctionLike("Constructor", None, <<Param(Id("a"), None)>>, None,
                       Block(<<ExprStmt(This)>>)),
          FunctionLike("GetAccessor", Id("p"), <<>>, None, Block(<<Return(This)>>)),
          FunctionLike("SetAccessor", Id("p"), <<Param(Id("v"), None)>>, None, Block(<<>>)),
          FunctionLike("MethodDeclaration", Id("m"), <<>>, None,
                       Block(<<Return(FunctionLike("ArrowFunction", None, <<>>, None,
                                                   This))>>))>>)>>)

\* { class A { m() {} } }  A;  const C = class D { p = 0; };  const E = class { };
ClassInBlock ==
    SourceFile(<<Block(<<Class("ClassDeclaration", Id("A"),
                               <<FunctionLike("MethodDeclaration", Id("m"), <<>>, None,
                                              Block(<<>>))>>)>>),
                 ExprStmt(Id("A")),
                 VarStmt({"Const"},
                     <<VarDecl(Id("C"), None,
                           Class("ClassExpression", Id("D"),
                                 <<Node("PropertyDeclaration", "", {},
                                        <<As("name", Id("p")), As("initializer", Num)>>)>>))>>),
                 VarStmt({"Const"},
                     <<VarDecl(Id("E"), None, Class("ClassExpression", None, <<>>))>>)>>)

\* function f() { if (c) { return a; } else throw t;
\*                while (w) { switch (s) { case k: u; } }
\*                for (i; j; l) m; }
Statements ==
    SourceFile(<<FunctionDeclaration("f", <<>>,
        <<If(Id("c"), Block(<<Return(Id("a"))>>), Throw(Id("t"))),
          While(Id("w"),
                Block(<<Switch(Id("s"), <<CaseClause(Id("k"), <<ExprStmt(Id("u"))>>)>>)>>)),
          For(Id("i"), Id("j"), Id("l"), ExprStmt(Id("m")))>>)>>)

\* function f() { do { b; } while (x); }
DoWhile ==
    SourceFile(<<FunctionDeclaration("f", <<>>,
        <<Do(Block(<<ExprStmt(Id("b"))>>), Id("x"))>>)>>)

\* try { } catch (e) { e; }
TryCatch ==
    SourceFile(<<Try(Block(<<>>), Id("e"), Block(<<ExprStmt(Id("e"))>>))>>)

\* let e;  try { } catch (e) { e; }
TryCatchShadow ==
    SourceFile(<<VarStmt({"Let"}, <<VarDecl(Id("e"), None, None)>>),
                 Try(Block(<<>>), Id("e"), Block(<<ExprStmt(Id("e"))>>))>>)

\* const g = (p) => p;  const h = function n(q) { return n; };
FunctionExpressions ==
    SourceFile(<<VarStmt({"Const"},
                     <<VarDecl(Id("g"), None,
                           FunctionLike("ArrowFunction", None, <<Param(Id("p"), None)>>,
                                        None, Id("p")))>>),
                 VarStmt({"Const"},
                     <<VarDecl(Id("h"), None,
                           FunctionLike("FunctionExpression", Id("n"),
                                        <<Param(Id("q"), None)>>, None,
                                        Block(<<Return(Id("n"))>>)))>>)>>)

Keywords == {{}, {"Let"}, {"Const"}}
Wrappers == {"block", "for", "function"}

Wrap(w, stmts) ==
    CASE w = "block" -> Block(stmts)
      [] w = "for" -> For(None, None, None, Block(stmts))
      [] w = "function" -> FunctionDeclaration("h", <<>>, stmts)

RECURSIVE WrapAll(_, _)
WrapAll(ws, stmts) ==
    IF ws = <<>> THEN stmts ELSE <<Wrap(Head(ws), WrapAll(Tail(ws), stmts))>>

\* [let v;]  W1 { ... Wn { <keyword> v = w; v; } ... }  v;
Nested(outer, ws, keyword) ==
    SourceFile((IF outer THEN <<VarStmt({"Let"}, <<VarDecl(Id("v"), None, None)>>)>>
                ELSE <<>>)
               \o WrapAll(ws, <<VarStmt(keyword, <<VarDecl(Id("v"), None, Id("w"))>>),
                                ExprStmt(Id("v"))>>)
               \o <<ExprStmt(Id("v"))>>)

NestedPrograms ==
    {Nested(outer, ws, keyword) :
        outer \in BOOLEAN,
        ws \in UNION {[1..d -> Wrappers] : d \in 0..NestDepth},
        keyword \in Keywords}

\* { <keyword> {a, b: [c, , {d}]} = o, e = a; }
DestructuredDeclaration(keyword) ==
    SourceFile(<<Block(<<VarStmt(keyword,
        <<VarDecl(ObjectPattern(
                      <<BindingElement(None, Id("a")),
                        BindingElement(Id("b"),
                            ArrayPattern(<<BindingElement(None, Id("c")),
                                           Omitted,
                                           BindingElement(None,
                                               ObjectPattern(<<BindingElement(None,
                                                                              Id("d"))>>))>>))>>),
                  None, Id("o")),
          VarDecl(Id("e"), None, Id("a"))>>)>>)>>)

DestructuredDeclarations == {DestructuredDeclaration(keyword) : keyword \in Keywords}

Programs ==
    {ConstAB, TypedConst, AssignBound, AssignFree, Destructure, SimpleFunctionScope,
     MemberFunction,
     OmittedElement, FunctionScoped, MutualRecursion, UseBeforeDeclaration, Shadowing,
     ComputedMethod, ComputedAccessMethod, ComputedConcatMethod, DecoratedMember,
     PropertyInitializer, Imports, Loops, TryCatch, FunctionExpressions,
     ForOfAssigned, ForOfFunction, ClassMembers, ClassInBlock, Statements, DoWhile,
     TryCatchShadow, ForInOfSelf, BodyDeclarations, ObjectLiterals,
     TypedFunction, JsxExpressions, JsxNested}
    \cup NestedPrograms \cup LoopPrograms \cup DestructuredDeclarations

-----------------------------------------------------------------------------
\* visitNode(sourceFile, new Scope(ScopeKind.FunctionScope, sourceFile, null))
Init ==
    /\ sourceFile \in Programs
    /\ pc = "findScopes"
    /\ stack = <<Visit(<<>>, 1)>>
    /\ result = EmptyMap
    /\ scopes = <<NewScope("FunctionScope", <<>>, NoScope)>>
    /\ decls = <<>>
    /\ refs = <<>>
    /\ err = ""
    /\ call = NoCall

Next ==
    \/ VisitBlock
    \/ VisitImportClause
    \/ VisitFunctionLike
    \/ VisitFunctionLikeName
    \/ VisitParameterDeclaration
    \/ AddParameterBindings
    \/ VisitBody
    \/ VisitClassLike
    \/ VisitForLoop
    \/ VisitVariableDeclaration
    \/ VisitOtherNode
    \/ AssignReferences
    \/ SkipTypeNode
    \/ VisitIdentifier
    \/ VisitAssignment
    \/ VisitOther
    \/ Constructed

Spec == Init /\ [][Next]_vars

-----------------------------------------------------------------------------
(***************************************************************************)
(* class Scope driven by a client: any sequence of newChildScope,          *)
(* addBinding and addReference calls on the scopes of one tree whose root  *)
(* is the scope findScopes starts from.                                    *)
(***************************************************************************)
\* a; b;   the identifier nodes the client passes to addReference
IdentifierPool == SourceFile(<<ExprStmt(Id("a")), ExprStmt(Id("b"))>>)

Identifiers == {n \in AllNodes : IsIdentifier(At(n))}

ScopeKinds == {"LexicalScope", "FunctionScope"}

Calls == (Len(scopes) - 1) + Len(decls) + Len(refs)

InitApi ==
    /\ sourceFile = IdentifierPool
    /\ pc = "api"
    /\ stack = <<>>
    /\ result = EmptyMap
    /\ scopes = <<NewScope("FunctionScope", <<>>, NoScope)>>
    /\ decls = <<>>
    /\ refs = <<>>
    /\ err = ""
    /\ call = NoCall

Returned(h) ==
    /\ scopes' = h.scopes
    /\ decls' = h.decls
    /\ refs' = h.refs
    /\ err' = h.err
    /\ UNCHANGED <<sourceFile, pc, stack, result>>

CallNewChildScope ==
    /\ pc = "api" /\ err = "" /\ Calls < MaxCalls
    /\ \E s \in 1..Len(scopes), scopeKind \in ScopeKinds :
          /\ Returned([Heap EXCEPT !.scopes = NewChildScope(@, s, scopeKind, <<>>)])
          /\ call' = [op |-> "newChildScope", scope |-> s, name |-> "", node |-> NoNode]

CallAddBinding ==
    /\ pc = "api" /\ err = "" /\ Calls < MaxCalls
    /\ \E s \in 1..Len(scopes), n \in Identifiers, bindingScopeKind \in ScopeKinds :
          /\ Returned(AddBinding(Heap, s, At(n).text,
                                 Declaration(n, bindingScopeKind, At(n).text, "Mutable")))
          /\ call' = [op |-> "addBinding", scope |-> s, name |-> At(n).text, node |-> n]

CallAddReference ==
    /\ pc = "api" /\ err = "" /\ Calls < MaxCalls
    /\ \E s \in 1..Len(scopes), n \in Identifiers :
          /\ Returned(AddReference(Heap, s, n, NoNode, FALSE))
          /\ call' = [op |-> "addReference", scope |-> s, name |-> At(n).text, node |-> n]

\* a query: the heap is left as it is, the array returned is kept in call.returned
CallGetAllReferencesRecursively ==
    /\ pc = "api" /\ err = ""
    /\ \E s \in 1..Len(scopes) :
          /\ Returned(Heap)
          /\ call' = [op |-> "getAllReferencesRecursively", scope |-> s, name |-> "",
                      node |-> NoNode,
                      returned |-> GetAllReferencesRecursively(scopes, s)]

NextApi ==
    \/ CallNewChildScope
    \/ CallAddBinding
    \/ CallAddReference
    \/ CallGetAllReferencesRecursively

SpecApi == InitApi /\ [][NextApi]_vars

(***************************************************************************)
(* The lookups of class Scope, called by a client on any scope of a chain *)
(* of scopes built with newChildScope and addBinding.  A lookup leaves the *)
(* heap as it is; the value returned is kept in call.returned.             *)
(***************************************************************************)
CallGetBinding ==
    /\ pc = "api" /\ err = ""
    /\ \E s \in 1..Len(scopes), n \in Identifiers :
          /\ Returned(Heap)
          /\ call' = [op |-> "getBinding", scope |-> s, name |-> At(n).text,
                      node |-> NoNode, returned |-> GetBinding(scopes, s, At(n).text)]

CallGetOwnLexicalBinding ==
    /\ pc = "api" /\ err = ""
    /\ \E s \in 1..Len(scopes), n \in Identifiers :
          /\ Returned(Heap)
          /\ call' = [op |-> "getOwnLexicalBinding", scope |-> s, name |-> At(n).text,
                      node |-> NoNode,
                      returned |-> GetOwnLexicalBinding(scopes, s, At(n).text)]

CallGetOwnFunctionScopeBinding ==
    /\ pc = "api" /\ err = ""
    /\ \E s \in 1..Len(scopes), n \in Identifiers :
          /\ Returned(Heap)
          /\ call' = [op |-> "getOwnFunctionScopeBinding", scope |-> s,
                      name |-> At(n).text, node |-> NoNode,
                      returned |-> GetOwnFunctionScopeBinding(scopes, s, At(n).text)]

\* addBinding, on scope s, of a declaration for each of the identifier nodes
RECURSIVE AddBindings(_, _, _)
AddBindings(h, s, nodes) ==
    IF nodes = {} THEN h
    ELSE LET n == CHOOSE m \in nodes : TRUE
         IN  AddBindings(AddBinding(h, s, At(n).text,
                                    Declaration(n, "LexicalScope", At(n).text, "Mutable")),
                         s, nodes \ {n})

\* below the scope made last, newChildScope with kinds[i] and the bindings of
\* tables[i], for i, i + 1, ...
RECURSIVE ScopeChain(_, _, _, _)
ScopeChain(h, kinds, tables, i) ==
    IF i > Len(kinds) THEN h
    ELSE ScopeChain(
             AddBindings([h EXCEPT !.scopes = NewChildScope(@, Len(h.scopes), kinds[i], <<>>)],
                         Len(h.scopes) + 1, tables[i]),
             kinds, tables, i + 1)

\* a root scope with any bindings and a chain of up to MaxChain scopes below it,
\* of any kinds and with any bindings
InitLookup ==
    /\ sourceFile = IdentifierPool
    /\ pc = "api"
    /\ stack = <<>>
    /\ result = EmptyMap
    /\ call = NoCall
    /\ \E k \in 0..MaxChain :
          \E kinds \in [1..k -> ScopeKinds], tables \in [1..k -> SUBSET Identifiers],
             rootTable \in SUBSET Identifiers :
              LET root == [scopes |-> <<NewScope("FunctionScope", <<>>, NoScope)>>,
                           decls |-> <<>>, refs |-> <<>>, err |-> ""]
                  h == ScopeChain(AddBindings(root, 1, rootTable), kinds, tables, 1)
              IN  /\ scopes = h.scopes
                  /\ decls = h.decls
                  /\ refs = h.refs
                  /\ err = h.err

NextLookup ==
    \/ CallGetBinding
    \/ CallGetOwnLexicalBinding
    \/ CallGetOwnFunctionScopeBinding

SpecLookup == InitLookup /\ [][NextLookup]_vars

-----------------------------------------------------------------------------
(***************************************************************************)
(* Vocabulary of the properties.                                           *)
(***************************************************************************)
ScopeIds == 1..Len(scopes)

\* s, parent(s), ..., root
RECURSIVE Chain(_, _)
Chain(S, s) == IF s = NoScope THEN <<>> ELSE <<s>> \o Chain(S, S[s].parentScope)

\* t is s or an ancestor of s
OnChain(t, s) == \E i \in 1..Len(Chain(scopes, s)) : Chain(scopes, s)[i] = t

Least(is) == CHOOSE i \in is : \A j \in is : i <= j

\* the first FunctionScope-kind scope on the chain of s, NoScope when there is none
NearestFunctionScope(s) ==
    LET chain == Chain(scopes, s)
        is == {i \in 1..Len(chain) : scopes[chain[i]].scopeKind = "FunctionScope"}
    IN  IF is = {} THEN NoScope ELSE chain[Least(is)]

\* the first scope on the chain of s whose table holds name, with its binding
NearestHolder(s, name) ==
    LET chain == Chain(scopes, s)
        is == {i \in 1..Len(chain) : name \in DOMAIN scopes[chain[i]].bindings}
    IN  IF is = {} THEN NoBinding
        ELSE [binding |-> scopes[chain[Least(is)]].bindings[name], scope |-> chain[Least(is)]]

\* the scopes whose table holds binding d
StoredIn(d) ==
    {s \in ScopeIds : \E n \in DOMAIN scopes[s].bindings : scopes[s].bindings[n] = d}

\* the references recorded for identifier node n
ReferencesOf(n) == {r \in 1..Len(refs) : refs[r].identifier = n}

Names == {At(n).text : n \in {m \in AllNodes : IsIdentifier(At(m))}} \cup {"this"}

\* the binding tables of all scopes
Tables == [s \in ScopeIds |-> scopes[s].bindings]

-----------------------------------------------------------------------------
\* C1: after construction getScopeForNode succeeds for every node reachable from
\* the root, at every depth and for every node kind.
C1_Totality == pc = "done" => \A n \in AllNodes : GetScopeForNode(n)

\* C2: construction never raises "Scope not found" or "Could not find parent
\* function scope", whatever the syntax tree.
C2_ConstructionNeverRaises ==
    err \notin {"Scope not found", "Could not find parent function scope"}

\* C3: addBinding never raises; a binding tagged FunctionScope is stored in the
\* nearest FunctionScope-kind scope on the chain of the scope addBinding was called
\* on, and in no other scope; getBinding from that function scope returns it; no
\* LexicalScope-kind scope stores a FunctionScope-tagged binding.
C3_FunctionScopedBindingsHoist ==
    /\ err = ""
    /\ \A s \in ScopeIds : \A n \in DOMAIN scopes[s].bindings :
          decls[scopes[s].bindings[n]].bindingScopeKind = "FunctionScope"
              => scopes[s].scopeKind = "FunctionScope"
    /\ (call.op = "addBinding" /\ decls[Len(decls)].bindingScopeKind = "FunctionScope")
          => LET f == NearestFunctionScope(call.scope)
             IN  /\ f # NoScope
                 /\ StoredIn(Len(decls)) = {f}
                 /\ call.name \in DOMAIN scopes[f].bindings
                 /\ scopes[f].bindings[call.name] = Len(decls)
                 /\ GetBinding(scopes, f, call.name) = [binding |-> Len(decls), scope |-> f]

\* a `var` two lexical scopes below a function scope that is not the root
C3_Witness ==
    /\ call.op = "addBinding"
    /\ decls[Len(decls)].bindingScopeKind = "FunctionScope"
    /\ scopes[call.scope].scopeKind = "LexicalScope"
    /\ NearestFunctionScope(call.scope) # 1
    /\ StoredIn(Len(decls)) = {NearestFunctionScope(call.scope)}

\* C4: a binding tagged LexicalScope is stored in exactly the scope addBinding was
\* called on, and getBinding of its name from a scope that is neither that scope
\* nor one of its descendants never returns it.
C4_LexicalBindingsStayLocal ==
    /\ \A d \in 1..Len(decls) :
          decls[d].bindingScopeKind = "LexicalScope"
              => \A s \in StoredIn(d) : \A t \in ScopeIds :
                     ~OnChain(s, t) => GetBinding(scopes, t, decls[d].identifier).binding # d
    /\ (call.op = "addBinding" /\ decls[Len(decls)].bindingScopeKind = "LexicalScope")
          => /\ StoredIn(Len(decls)) = {call.scope}
             /\ scopes[call.scope].bindings[call.name] = Len(decls)

\* a `let` in a block that has a sibling scope and a parent that do not see it
C4_Witness ==
    /\ call.op = "addBinding"
    /\ decls[Len(decls)].bindingScopeKind = "LexicalScope"
    /\ scopes[call.scope].scopeKind = "LexicalScope"
    /\ \E t \in ScopeIds :
          /\ t # call.scope
          /\ scopes[t].parentScope = scopes[call.scope].parentScope
          /\ GetBinding(scopes, t, call.name) = NoBinding
    /\ GetBinding(scopes, call.scope, call.name).binding = Len(decls)

\* C5: getBinding(n) on S returns the binding and the scope of the nearest scope on
\* the chain S, parent(S), ..., root whose table holds n, and null when none does;
\* every resolved reference points to that nearest scope of its referencedFromScope.
C5_NearestBinding ==
    /\ \A s \in ScopeIds : \A n \in Names : GetBinding(scopes, s, n) = NearestHolder(s, n)
    /\ \A r \in 1..Len(refs) :
          refs[r].referenceTo # NoBinding
              => refs[r].referenceTo
                     = NearestHolder(refs[r].referencedFromScope, At(refs[r].identifier).text)

\* let x; { let x; x; } { x; }: the two uses of x resolve to different bindings
C5_Witness ==
    /\ pc = "done"
    /\ sourceFile = Shadowing
    /\ \E r1, r2 \in 1..Len(refs) :
          /\ At(refs[r1].identifier).text = "x" /\ At(refs[r2].identifier).text = "x"
          /\ refs[r1].referenceTo.scope = refs[r1].referencedFromScope
          /\ refs[r1].referenceTo.scope # 1
          /\ refs[r2].referenceTo.scope = 1
          /\ refs[r2].referencedFromScope # 1


\* C6: pass 2 starts only after pass 1 has processed the whole tree: once a
\* reference exists no binding is added; so every identifier resolves against the
\* complete binding tables, whether its declaration precedes or follows it, and two
\* function declarations that call each other both resolve.
ResolvedAgainstFinalTables ==
    \A r \in 1..Len(refs) :
        refs[r].referenceTo
            = NearestHolder(refs[r].referencedFromScope, At(refs[r].identifier).text)

C6_ResolveAfterBuild ==
    [][/\ refs' # refs => pc = "assignReferences"
       /\ refs # <<>> => Tables' = Tables /\ Len(decls') = Len(decls)
       /\ pc' = "done" => ResolvedAgainstFinalTables'
       /\ (pc' = "done" /\ sourceFile \in {MutualRecursion, UseBeforeDeclaration})
             => \A r \in 1..Len(refs) :
                    At(refs[r].identifier).text \in {"f", "g", "a"}
                        => refs[r].referenceTo # NoBinding]_vars

\* function f() { g(); } function g() { f(); }: the call of g, which is declared
\* after it, and the call of f both resolve
C6_Witness ==
    /\ pc = "done"
    /\ sourceFile = MutualRecursion
    /\ \E r1, r2 \in 1..Len(refs) :
          /\ At(refs[r1].identifier).text = "g" /\ At(refs[r2].identifier).text = "f"
          /\ r1 < r2
          /\ decls[refs[r1].referenceTo.binding].identifier = "g"
          /\ decls[refs[r2].referenceTo.binding].identifier = "f"

\* C7: for a variable declaration with a plain identifier name and an initializer,
\* pass 2 records the initializer's references first and then exactly one reference
\* for the declared name, with isInitializer true and writeExpr the initializer,
\* resolved to a binding of that name; `const a = b;` yields a read of b, then a.
InitializedDeclarations ==
    {d \in AllNodes : /\ At(d).kind = "VariableDeclaration"
                      /\ IsIdentifier(At(Field(d, "name")))
                      /\ Field(d, "initializer") # NoNode}

C7_DeclareWithInitializer ==
    pc = "done" =>
        /\ \A d \in InitializedDeclarations :
              \E r \in 1..Len(refs) :
                  /\ ReferencesOf(Field(d, "name")) = {r}
                  /\ refs[r].isInitializer
                  /\ refs[r].writeExpr = Field(d, "initializer")
                  /\ refs[r].referenceTo # NoBinding
                  /\ decls[refs[r].referenceTo.binding].identifier = At(Field(d, "name")).text
                  /\ \A q \in 1..Len(refs) :
                        IsPrefix(Field(d, "initializer"), refs[q].identifier) => q < r
        /\ sourceFile = ConstAB
              => refs = <<Reference(<<1, 1, 1, 2>>, NoBinding, 1, NoNode, FALSE),
                          Reference(<<1, 1, 1, 1>>, [binding |-> 1, scope |-> 1], 1,
                                    <<1, 1, 1, 2>>, TRUE)>>

\* const a = b; was analysed
C7_Witness ==
    /\ pc = "done"
    /\ sourceFile = ConstAB
    /\ Len(refs) = 2
    /\ refs[2].isInitializer
    /\ At(refs[2].identifier).text = "a"

\* C8: for a simple assignment with a bare identifier on the left, pass 2 records
\* exactly one reference for the left side (writeExpr the right side, isInitializer
\* false), before the references of the right side, whatever the incoming read
\* flag; no step of pass 2 adds or removes a binding.
SimpleAssignments ==
    {n \in AllNodes : IsAssignment(At(n)) /\ IsIdentifier(At(Field(n, "left")))}

AssignmentsRecorded ==
    \A n \in SimpleAssignments :
        \E r \in 1..Len(refs) :
            /\ ReferencesOf(Field(n, "left")) = {r}
            /\ refs[r].writeExpr = Field(n, "right")
            /\ ~refs[r].isInitializer
            /\ refs[r].referencedFromScope = result[n]
            /\ refs[r].referenceTo = NearestHolder(result[n], At(Field(n, "left")).text)
            /\ \A q \in 1..Len(refs) :
                  IsPrefix(Field(n, "right"), refs[q].identifier) => r < q

C8_AssignmentIsWrite ==
    [][/\ pc = "assignReferences" => Tables' = Tables /\ Len(decls') = Len(decls)
       /\ pc' = "done" => AssignmentsRecorded']_vars

\* class B { p = x = y; } was analysed: x is bound nowhere and the assignment is
\* met with the read flag cleared
C8_Witness ==
    /\ pc = "done"
    /\ sourceFile = PropertyInitializer
    /\ Len(refs) = 2
    /\ At(refs[1].identifier).text = "x"
    /\ refs[1].referenceTo = NoBinding
    /\ refs[1].writeExpr = Field(<<1, 2, 2>>, "right")
    /\ At(refs[2].identifier).text = "y"
    /\ \A d \in 1..Len(decls) : decls[d].identifier # "x"

\* C9: each parameter yields one Mutable/FunctionScope binding per leaf identifier
\* of its name, stored in the function's own scope; property keys of an object
\* pattern and omitted array elements yield none.  function f({a, b: [c]}) {}
\* yields exactly a and c in the scope of f.
BindingTargets(name) ==
    {q \in AllNodes :
        /\ IsPrefix(name, q)
        /\ IsIdentifier(At(q))
        /\ \A k \in (Len(name) + 1)..Len(q) :
              At(SubSeq(q, 1, k)).role \in {"name", "elements"}}

C9_ParameterBindings ==
    [][/\ InFindScopes("addParameterBindings") =>
             LET paramDecl == Top.node
                 scope == Top.scope
                 targets == BindingTargets(Field(paramDecl, "name"))
                 new == (Len(decls) + 1)..Len(decls')
             IN  /\ err' = ""
                 /\ scopes[scope].scopeKind = "FunctionScope"
                 /\ scopes[scope].declaratingNode = Parent(paramDecl)
                 /\ Len(decls') = Len(decls) + Cardinality(targets)
                 /\ \A d \in new :
                       /\ decls'[d].declaringNode = paramDecl
                       /\ decls'[d].bindingScopeKind = "FunctionScope"
                       /\ decls'[d].mutability = "Mutable"
                       /\ \E q \in targets : At(q).text = decls'[d].identifier
                 /\ \A q \in targets :
                       /\ At(q).text \in DOMAIN scopes'[scope].bindings
                       /\ scopes'[scope].bindings[At(q).text] \in new
                 /\ DOMAIN scopes'[scope].bindings
                        = DOMAIN scopes[scope].bindings \cup {At(q).text : q \in targets}
                 /\ \A s \in ScopeIds \ {scope} : scopes'[s] = scopes[s]
       /\ (pc' = "done" /\ sourceFile = Destructure)
             => \E s \in ScopeIds :
                    /\ scopes[s].declaratingNode = <<1>>
                    /\ DOMAIN scopes[s].bindings = {"a", "c"}
                    /\ \A t \in ScopeIds \ {s} : "b" \notin DOMAIN scopes[t].bindings]_vars

\* function f({a, b: [c]}) {} was analysed
C9_Witness ==
    /\ pc = "done"
    /\ sourceFile = Destructure
    /\ \E s \in ScopeIds :
          /\ scopes[s].declaratingNode = <<1>>
          /\ DOMAIN scopes[s].bindings = {"a", "c"}
          /\ \A n \in {"a", "c"} : decls[scopes[s].bindings[n]].mutability = "Mutable"

\* C10: addReference of an identifier whose name no scope on the chain binds never
\* raises and appends a Reference with referenceTo null to the reference list of
\* the scope it was called on, and to no binding's list; it is never dropped.
C10_UnresolvedReferenceRecorded ==
    /\ err = ""
    /\ \A r \in 1..Len(refs) :
          /\ \E i \in 1..Len(scopes[refs[r].referencedFromScope].references) :
                scopes[refs[r].referencedFromScope].references[i] = r
          /\ refs[r].referenceTo = NoBinding
                => \A d \in 1..Len(decls) :
                       \A i \in 1..Len(decls[d].references) : decls[d].references[i] # r
    /\ call.op = "addReference"
          => /\ refs # <<>>
             /\ refs[Len(refs)].identifier = call.node
             /\ refs[Len(refs)].referencedFromScope = call.scope
             /\ scopes[call.scope].references # <<>>
             /\ scopes[call.scope].references[Len(scopes[call.scope].references)] = Len(refs)
             /\ NearestHolder(call.scope, call.name) = NoBinding
                   => refs[Len(refs)].referenceTo = NoBinding

\* a name bound in another scope, but in none on the chain, was referenced
C10_Witness ==
    /\ call.op = "addReference"
    /\ refs[Len(refs)].referenceTo = NoBinding
    /\ \E d \in 1..Len(decls) : decls[d].identifier = call.name
    /\ scopes[call.scope].references = <<Len(refs)>>

\* C11: every for, for-in and for-of statement gets its own LexicalScope child scope
\* for the loop head; a let/const loop variable is bound in that loop scope and in
\* no other, so an outer binding of the same name stays in place and is what
\* getBinding returns from outside the loop, while getBinding from the loop body
\* returns the loop's binding.
LoopVariableDeclarations ==
    {d \in AllNodes :
        /\ At(d).kind = "VariableDeclaration"
        /\ Len(d) >= 2
        /\ At(Parent(d)).kind = "VariableDeclarationList"
        /\ At(Parent(d)).role = "initializer"
        /\ BlockScoped(At(Parent(d)).flags)
        /\ IsForLoop(At(Parent(Parent(d))))}

ScopesOf(node) == {s \in ScopeIds : scopes[s].declaratingNode = node}

LoopBindingsVisible ==
    \A d \in LoopVariableDeclarations :
        LET loop == Parent(Parent(d))
        IN  /\ Cardinality(ScopesOf(loop)) = 1
            /\ \A forScope \in ScopesOf(loop) :
                  \A q \in BindingTargets(Field(d, "name")) :
                      LET inside == GetBinding(scopes, result[Field(loop, "statement")],
                                               At(q).text)
                          outside == GetBinding(scopes, result[loop], At(q).text)
                      IN  /\ inside.scope = forScope
                          /\ decls[inside.binding].declaringNode = d
                          /\ StoredIn(inside.binding) = {forScope}
                          /\ outside.scope # forScope
                          /\ outside # NoBinding
                                => decls[outside.binding].declaringNode # d
                          /\ sourceFile \in LoopPrograms
                                => /\ outside.scope = 1
                                   /\ decls[outside.binding].declaringNode = <<1, 1, 1>>

C11_LoopScope ==
    [][/\ (InFindScopes("visitNode") /\ IsForLoop(At(Top.node)))
             => /\ Len(scopes') = Len(scopes) + 1
                /\ scopes'[Len(scopes')] = NewScope("LexicalScope", Top.node, Top.scope)
                /\ \A s \in ScopeIds : scopes'[s].bindings = scopes[s].bindings
       /\ (InFindScopes("visitNode") /\ Top.node \in LoopVariableDeclarations)
             => /\ scopes[Top.scope].declaratingNode = Parent(Parent(Top.node))
                /\ scopes[Top.scope].scopeKind = "LexicalScope"
                /\ scopes[Top.scope].parentScope = result[Parent(Parent(Top.node))]
                /\ \A s \in ScopeIds \ {Top.scope} : scopes'[s].bindings = scopes[s].bindings
                /\ \A q \in BindingTargets(Field(Top.node, "name")) :
                      /\ At(q).text \in DOMAIN scopes'[Top.scope].bindings
                      /\ decls'[scopes'[Top.scope].bindings[At(q).text]].declaringNode
                             = Top.node
       /\ pc' = "done" => LoopBindingsVisible']_vars

\* let i; for (let i of xs) { i; } i; was analysed: the root and the loop scope
\* each hold their own i
C11_Witness ==
    /\ pc = "done"
    /\ sourceFile = LoopFreshness("ForOfStatement", {"Let"}, TRUE)
    /\ GetBinding(scopes, 1, "i").scope = 1
    /\ GetBinding(scopes, result[<<2, 3>>], "i").scope = 2
    /\ scopes[2].scopeKind = "LexicalScope"
    /\ scopes[2].declaratingNode = <<2>>

\* C12: for a for-in or for-of statement the reference recorded for the loop's bound
\* name is a declare-with-initializer reference: isInitializer is true and writeExpr
\* is the iterated expression of the loop.
LoopNames(loop) ==
    LET initializer == Field(loop, "initializer")
    IN  IF IsIdentifier(At(initializer)) THEN {initializer}
        ELSE UNION {BindingTargets(Field(d, "name")) :
                       d \in {n \in AllNodes : /\ At(n).kind = "VariableDeclaration"
                                                /\ Len(n) >= 1
                                                /\ Parent(n) = initializer}}

C12_LoopNameIsInitializer ==
    pc = "done" =>
        \A loop \in {n \in AllNodes : At(n).kind \in {"ForInStatement", "ForOfStatement"}} :
            \A q \in LoopNames(loop) :
                \E r \in 1..Len(refs) :
                    /\ ReferencesOf(q) = {r}
                    /\ refs[r].isInitializer
                    /\ refs[r].writeExpr = Field(loop, "expression")

\* C13: getAllReferencesRecursively on S returns S's own references in recording
\* order followed by the result for each child scope in child-creation order
\* (pre-order); every reference owned by S or a descendant of S appears exactly
\* once and no other reference appears; the call changes no state and a repeated
\* call returns the same sequence.
\* the scope on the chain of s whose parent is t
Branch(t, s) ==
    LET chain == Chain(scopes, s)
    IN  chain[CHOOSE i \in 1..Len(chain) : scopes[chain[i]].parentScope = t]

\* scope a comes before scope b in the pre-order walk of the scope tree
PreOrderBefore(a, b) ==
    /\ a # b
    /\ \/ OnChain(a, b)
       \/ /\ ~OnChain(b, a)
          /\ \E t \in ScopeIds :
                /\ OnChain(t, a) /\ OnChain(t, b)
                /\ Branch(t, a) # Branch(t, b)
                /\ \E i, j \in 1..Len(scopes[t].childScopes) :
                      /\ i < j
                      /\ scopes[t].childScopes[i] = Branch(t, a)
                      /\ scopes[t].childScopes[j] = Branch(t, b)

C13_AllReferencesPreOrder ==
    [][call'.op = "getAllReferencesRecursively" =>
          LET s == call'.scope
              returned == call'.returned
              owner(r) == refs[r].referencedFromScope
              position(r, list) == CHOOSE i \in 1..Len(list) : list[i] = r
          IN  /\ <<scopes', decls', refs', err'>> = <<scopes, decls, refs, err>>
              /\ \A r \in 1..Len(refs) :
                    Cardinality({i \in 1..Len(returned) : returned[i] = r})
                        = IF OnChain(s, owner(r)) THEN 1 ELSE 0
              /\ \A i \in 1..Len(returned) : returned[i] \in 1..Len(refs)
              /\ SubSeq(returned, 1, Len(scopes[s].references)) = scopes[s].references
              /\ \A i, j \in 1..Len(returned) :
                    i < j =>
                        IF owner(returned[i]) = owner(returned[j])
                        THEN position(returned[i], scopes[owner(returned[i])].references)
                                 < position(returned[j], scopes[owner(returned[j])].references)
                        ELSE PreOrderBefore(owner(returned[i]), owner(returned[j]))
              /\ (call.op = "getAllReferencesRecursively" /\ call.scope = s)
                    => call.returned = returned]_vars

\* the root recorded its reference after its child did, and still comes first
C13_Witness ==
    /\ call.op = "getAllReferencesRecursively"
    /\ call.scope = 1
    /\ call.returned = <<2, 1>>
    /\ refs[1].referencedFromScope # 1
    /\ refs[2].referencedFromScope = 1

\* C14: a function declaration or function expression with a name binds that name
\* Immutable/LexicalScope in the scope that contains the function node, not in the
\* function's own scope and without hoisting; the name resolves from inside the
\* function body; a function declared in a block or a loop body is bound in that
\* block or loop scope and does not resolve from outside it.  Methods, accessors,
\* constructors and arrow functions bind no name.
NamedFunctions ==
    {f \in AllNodes : /\ At(f).kind \in {"FunctionDeclaration", "FunctionExpression"}
                      /\ Field(f, "name") # NoNode
                      /\ IsIdentifier(At(Field(f, "name")))}

FunctionNamesVisible ==
    \A f \in NamedFunctions :
        LET name == At(Field(f, "name")).text
            found == GetBinding(scopes, result[f], name)
        IN  /\ found.scope = result[f]
            /\ [decls[found.binding] EXCEPT !.references = <<>>]
                   = Declaration(f, "LexicalScope", name, "Immutable")
            /\ StoredIn(found.binding) = {result[f]}
            /\ \A s \in ScopesOf(f) :
                  /\ s # result[f]
                  /\ name \notin DOMAIN scopes[s].bindings
                        => GetBinding(scopes, s, name) = found
            /\ \A s \in ScopeIds :
                  ~OnChain(result[f], s) => GetBinding(scopes, s, name).binding # found.binding

C14_FunctionNameBinding ==
    [][/\ InFindScopes("visitFunctionLikeName") =>
             LET f == Top.node
                 scope == Top.scope
                 new == Len(decls) + 1
             IN  IF f \in NamedFunctions
                 THEN LET name == At(Field(f, "name")).text
                      IN  /\ scope = result[f]
                          /\ decls' = Append(decls, Declaration(f, "LexicalScope", name,
                                                                "Immutable"))
                          /\ scopes'[scope].bindings = MapSet(scopes[scope].bindings, name, new)
                          /\ \A s \in ScopeIds \ {scope} :
                                scopes'[s].bindings = scopes[s].bindings
                          /\ Len(scopes') = Len(scopes) + 1
                          /\ scopes'[Len(scopes')] = NewScope("FunctionScope", f, scope)
                          /\ GetBinding(scopes', Len(scopes'), name)
                                = [binding |-> new, scope |-> scope]
                 ELSE /\ decls' = decls
                      /\ \A s \in ScopeIds : scopes'[s].bindings = scopes[s].bindings
       /\ pc' = "done" =>
             /\ FunctionNamesVisible'
             /\ sourceFile \in {FunctionScoped, ForOfFunction}
                   => /\ GetBinding(scopes', 1, "myFunction") = NoBinding
                      /\ "myFunction" \in DOMAIN scopes'[2].bindings
                      /\ scopes'[2].scopeKind = "LexicalScope"]_vars

\* for (let i of y) { function myFunction() {} } was analysed: myFunction is bound
\* in the loop scope, next to i, and the root does not see it
C14_Witness ==
    /\ pc = "done"
    /\ sourceFile = ForOfFunction
    /\ DOMAIN scopes[2].bindings = {"i", "myFunction"}
    /\ scopes[2].declaratingNode = <<1>>
    /\ decls[scopes[2].bindings["myFunction"]].bindingScopeKind = "LexicalScope"
    /\ GetBinding(scopes, 3, "myFunction").scope = 2
    /\ GetBinding(scopes, 1, "myFunction") = NoBinding

\* C15: a class declaration or class expression with a name binds that name
\* Immutable/FunctionScope from the containing scope, so it is stored in the nearest
\* enclosing function scope, also when the class is declared in a block; it creates
\* one FunctionScope-kind child scope for the class body and adds exactly one
\* Immutable binding named this to that class scope; class member names add no
\* binding.
ClassThisBindings(c) ==
    {d \in 1..Len(decls) : decls[d].declaringNode = c /\ decls[d].identifier = "this"}

ClassesBound ==
    \A c \in {n \in AllNodes : IsClassLike(At(n))} :
        /\ Cardinality(ScopesOf(c)) = 1
        /\ Cardinality(ClassThisBindings(c)) = 1
        /\ \A classScope \in ScopesOf(c) :
              /\ scopes[classScope].scopeKind = "FunctionScope"
              /\ scopes[classScope].parentScope = result[c]
              /\ "this" \in DOMAIN scopes[classScope].bindings
              /\ scopes[classScope].bindings["this"] \in ClassThisBindings(c)
              /\ decls[scopes[classScope].bindings["this"]].mutability = "Immutable"
              /\ \A m \in {n \in AllNodes : Len(n) >= 1 /\ Parent(n) = c
                                                       /\ At(n).role = "members"} :
                    \A d \in 1..Len(decls) : decls[d].declaringNode # m
        /\ Field(c, "name") # NoNode
              => LET name == At(Field(c, "name")).text
                     f == NearestFunctionScope(result[c])
                 IN  /\ name \in DOMAIN scopes[f].bindings
                     /\ [decls[scopes[f].bindings[name]] EXCEPT !.references = <<>>]
                            = Declaration(c, "FunctionScope", name, "Immutable")
                     /\ StoredIn(scopes[f].bindings[name]) = {f}

C15_ClassBindings ==
    [][/\ (InFindScopes("visitNode") /\ IsClassLike(At(Top.node))) =>
             LET c == Top.node
                 name == Field(c, "name")
                 named == IF name = NoNode THEN 0 ELSE 1
                 f == NearestFunctionScope(Top.scope)
                 this == Len(decls) + named + 1
             IN  /\ Len(decls') = this
                 /\ decls'[this] = Declaration(c, "FunctionScope", "this", "Immutable")
                 /\ Len(scopes') = Len(scopes) + 1
                 /\ scopes'[Len(scopes')]
                        = [NewScope("FunctionScope", c, Top.scope)
                              EXCEPT !.bindings = MapSet(EmptyMap, "this", this)]
                 /\ name # NoNode
                       => /\ decls'[this - 1]
                                = Declaration(c, "FunctionScope", At(name).text, "Immutable")
                          /\ scopes'[f].bindings
                                = MapSet(scopes[f].bindings, At(name).text, this - 1)
                 /\ \A s \in ScopeIds :
                       (name = NoNode \/ s # f) => scopes'[s].bindings = scopes[s].bindings
       /\ (/\ pc = "findScopes" /\ stack # <<>>
           /\ Top.op \in {"visitNode", "visitFunctionLikeName"}
           /\ Len(Top.node) >= 1
           /\ At(Top.node).role \in {"members", "name"}
           /\ IsClassLike(At(Parent(Top.node))))
             => /\ decls' = decls
                /\ \A s \in ScopeIds : scopes'[s].bindings = scopes[s].bindings
       /\ pc' = "done" =>
             /\ ClassesBound'
             /\ sourceFile = ClassInBlock
                   => /\ DOMAIN scopes'[1].bindings = {"A", "C", "D", "E"}
                      /\ DOMAIN scopes'[2].bindings = {}
                      /\ scopes'[2].declaratingNode = <<1>>]_vars

\* { class A { m() {} } } A; ... was analysed: A is stored in the root, not in the
\* block, and the use of A after the block resolves to it
C15_Witness ==
    /\ pc = "done"
    /\ sourceFile = ClassInBlock
    /\ scopes[2].scopeKind = "LexicalScope"
    /\ scopes[3].declaratingNode = <<1, 1>>
    /\ DOMAIN scopes[3].bindings = {"this"}
    /\ decls[scopes[1].bindings["A"]].declaringNode = <<1, 1>>
    /\ \E r \in 1..Len(refs) :
          /\ refs[r].identifier = <<2, 1>>
          /\ refs[r].referenceTo = [binding |-> scopes[1].bindings["A"], scope |-> 1]

\* C16: each leaf identifier of a variable declaration in a declaration list gets a
\* binding whose kind and mutability derive from the list's modifiers: const gives
\* LexicalScope/Immutable, let LexicalScope/Mutable, var FunctionScope/Mutable; all
\* leaves of one (possibly nested) pattern share kind, mutability and declaring
\* node.
KindOf(flags) ==
    CASE "Const" \in flags -> [scopeKind |-> "LexicalScope", mutability |-> "Immutable"]
      [] "Let" \in flags -> [scopeKind |-> "LexicalScope", mutability |-> "Mutable"]
      [] OTHER -> [scopeKind |-> "FunctionScope", mutability |-> "Mutable"]

C16_DeclarationKinds ==
    [][(/\ InFindScopes("visitNode")
        /\ At(Top.node).kind = "VariableDeclaration"
        /\ At(Parent(Top.node)).kind = "VariableDeclarationList") =>
          LET node == Top.node
              expected == KindOf(At(Parent(node)).flags)
              targets == BindingTargets(Field(node, "name"))
              new == (Len(decls) + 1)..Len(decls')
              scope == IF expected.scopeKind = "LexicalScope" THEN Top.scope
                       ELSE NearestFunctionScope(Top.scope)
          IN  /\ err' = ""
              /\ Len(decls') = Len(decls) + Cardinality(targets)
              /\ \A d \in new :
                    /\ decls'[d].declaringNode = node
                    /\ decls'[d].bindingScopeKind = expected.scopeKind
                    /\ decls'[d].mutability = expected.mutability
                    /\ \E q \in targets : At(q).text = decls'[d].identifier
              /\ \A q \in targets :
                    /\ At(q).text \in DOMAIN scopes'[scope].bindings
                    /\ scopes'[scope].bindings[At(q).text] \in new
              /\ \A s \in ScopeIds \ {scope} : scopes'[s].bindings = scopes[s].bindings]_vars

\* { var {a, b: [c, , {d}]} = o, e = a; } was analysed: the four leaves are hoisted
\* to the root, the three of the pattern with the same declaring node
C16_Witness ==
    /\ pc = "done"
    /\ sourceFile = DestructuredDeclaration({})
    /\ DOMAIN scopes[1].bindings = {"a", "c", "d", "e"}
    /\ DOMAIN scopes[2].bindings = {}
    /\ \A n \in {"a", "c", "d"} :
          /\ decls[scopes[1].bindings[n]].declaringNode = <<1, 1, 1, 1>>
          /\ decls[scopes[1].bindings[n]].bindingScopeKind = "FunctionScope"
          /\ decls[scopes[1].bindings[n]].mutability = "Mutable"
    /\ decls[scopes[1].bindings["e"]].declaringNode = <<1, 1, 1, 2>>

\* C17: each default import, namespace import and named import specifier creates
\* exactly one Immutable/FunctionScope binding under its local name (for `a as b`
\* the alias b, never the imported name a), stored in the scope of the import (the
\* root for top-level imports); import clauses produce no references.
\* the nodes of an import clause that introduce a local name
ImportedLocals(clause) ==
    {n \in AllNodes :
        /\ Field(n, "name") # NoNode
        /\ \/ n = clause
           \/ At(n).kind = "NamespaceImport" /\ Len(n) >= 1 /\ Parent(n) = clause
           \/ /\ At(n).kind = "ImportSpecifier" /\ Len(n) >= 2
              /\ Parent(Parent(n)) = clause}

C17_ImportBindings ==
    [][/\ (InFindScopes("visitNode") /\ At(Top.node).kind = "ImportClause") =>
             LET locals == ImportedLocals(Top.node)
                 new == (Len(decls) + 1)..Len(decls')
                 scope == NearestFunctionScope(Top.scope)
             IN  /\ Len(decls') = Len(decls) + Cardinality(locals)
                 /\ \A n \in locals :
                       LET name == At(Field(n, "name")).text
                       IN  /\ Cardinality({d \in new : decls'[d].declaringNode = n}) = 1
                           /\ name \in DOMAIN scopes'[scope].bindings
                           /\ decls'[scopes'[scope].bindings[name]]
                                  = Declaration(n, "FunctionScope", name, "Immutable")
                 /\ DOMAIN scopes'[scope].bindings
                        = DOMAIN scopes[scope].bindings
                          \cup {At(Field(n, "name")).text : n \in locals}
                 /\ \A s \in ScopeIds \ {scope} : scopes'[s].bindings = scopes[s].bindings
                 /\ Top.scope = 1 => scope = 1
       /\ \A r \in 1..Len(refs') :
             \A n \in AllNodes :
                 At(n).kind = "ImportClause" => ~IsPrefix(n, refs'[r].identifier)
       /\ (pc' = "done" /\ sourceFile = Imports)
             => /\ DOMAIN scopes'[1].bindings = {"d", "y", "s", "ts"}
                /\ Len(refs') = 1]_vars

\* import d, { y, h as s } from 'm'; import * as ts from 'm'; s; was analysed:
\* the specifier h as s is bound under s and the use of s resolves to it
C17_Witness ==
    /\ pc = "done"
    /\ sourceFile = Imports
    /\ "s" \in DOMAIN scopes[1].bindings
    /\ "h" \notin DOMAIN scopes[1].bindings
    /\ At(decls[scopes[1].bindings["s"]].declaringNode).kind = "ImportSpecifier"
    /\ At(decls[scopes[1].bindings["ts"]].declaringNode).kind = "NamespaceImport"
    /\ At(decls[scopes[1].bindings["d"]].declaringNode).kind = "ImportClause"
    /\ refs[1].referenceTo = [binding |-> scopes[1].bindings["s"], scope |-> 1]

\* C18: the primary expression of return, throw, if, while, for (initializer,
\* condition, incrementor), switch (discriminant) and case (test) is visited with
\* the read flag set whatever the incoming flag; as a result every identifier in a
\* value-read position inside any nested construct yields a reference, none is
\* dropped because an enclosing construct was visited with the flag cleared.
PrimaryExpressions(node) ==
    LET kind == At(node).kind
        roles == CASE kind \in {"ReturnStatement", "ThrowStatement", "IfStatement",
                                "WhileStatement", "SwitchStatement", "CaseClause"}
                        -> {"expression"}
                   [] kind = "ForStatement" -> {"initializer", "condition", "incrementor"}
                   [] OTHER -> {}
    IN  {Field(node, role) : role \in roles} \ {NoNode}

ValueReadRoles ==
    {"expression", "condition", "incrementor", "right", "arguments", "argumentExpression"}

\* identifiers that stand where an expression is evaluated
ValueReads ==
    {n \in AllNodes :
        /\ IsIdentifier(At(n))
        /\ At(n).role \in ValueReadRoles
        /\ \A k \in 0..Len(n) : ~IsTypeNode(At(SubSeq(n, 1, k)))}

PrimaryExpressionsRead ==
    InAssignReferences =>
        \A e \in PrimaryExpressions(Top.node) :
            \E i \in 1..Len(stack') : stack'[i].node = e /\ stack'[i].collectReferences

C18_ReadsNeverDropped ==
    [][/\ PrimaryExpressionsRead
       /\ pc' = "done" =>
             \A n \in ValueReads : \E r \in 1..Len(refs') : refs'[r].identifier = n]_vars

\* C19: no reference is recorded for an identifier that is a binding target inside
\* a destructuring pattern (object or array pattern, at any depth), whether the
\* pattern is a parameter's name or a variable declaration's name; such identifiers
\* only create bindings.
PatternTargets(declarationKind) ==
    UNION {BindingTargets(Field(d, "name")) :
              d \in {n \in AllNodes :
                        /\ At(n).kind = declarationKind
                        /\ At(Field(n, "name")).kind
                               \in {"ObjectBindingPattern", "ArrayBindingPattern"}}}

C19_PatternTargetsUnreferenced ==
    \A q \in PatternTargets("Parameter") \cup PatternTargets("VariableDeclaration") :
        ReferencesOf(q) = {}

\* C20: a this occurrence inside any function-like member nested in a class
\* (method, accessor, constructor, arrow function or function expression) produces
\* a reference that resolves, by the ordinary upward getBinding lookup from the
\* member's scope, to the this binding stored in the scope of the enclosing class.
\* the nearest class-like ancestor of node n, NoNode when there is none
EnclosingClass(n) ==
    LET ks == {k \in 0..(Len(n) - 1) : IsClassLike(At(SubSeq(n, 1, k)))}
    IN  IF ks = {} THEN NoNode
        ELSE SubSeq(n, 1, CHOOSE k \in ks : \A j \in ks : j <= k)

ThisOccurrences ==
    {n \in AllNodes :
        /\ At(n).kind = "ThisKeyword"
        /\ EnclosingClass(n) # NoNode
        /\ \E k \in (Len(EnclosingClass(n)) + 1)..(Len(n) - 1) :
              IsFunctionLike(At(SubSeq(n, 1, k)))}

C20_ThisResolvesToClass ==
    pc = "done" =>
        \A n \in ThisOccurrences :
            \E r \in 1..Len(refs) :
                /\ refs[r].identifier = n
                /\ refs[r].referencedFromScope = result[n]
                /\ refs[r].referenceTo = GetBinding(scopes, result[n], "this")
                /\ refs[r].referenceTo # NoBinding
                /\ decls[refs[r].referenceTo.binding].declaringNode = EnclosingClass(n)
                /\ scopes[refs[r].referenceTo.scope].declaratingNode = EnclosingClass(n)

\* C21: for a catch clause with a parameter, the parameter is bound
\* Mutable/LexicalScope in the block scope of the catch body (one binding per leaf
\* identifier, declaring node the catch clause), and every reference recorded for
\* an occurrence of that name belonging to the catch clause, the one for the
\* parameter's own name identifier included, resolves to that binding, never to a
\* same-named binding of an enclosing scope or to an absent target.
CatchClauses ==
    {n \in AllNodes : /\ At(n).kind = "CatchClause"
                      /\ Field(n, "variableDeclaration") # NoNode}

C21_CatchParameter ==
    pc = "done" =>
        \A c \in CatchClauses :
            \A catchScope \in ScopesOf(Field(c, "block")) :
                \A q \in BindingTargets(Field(Field(c, "variableDeclaration"), "name")) :
                    LET name == At(q).text
                    IN  /\ name \in DOMAIN scopes[catchScope].bindings
                        /\ [decls[scopes[catchScope].bindings[name]]
                               EXCEPT !.references = <<>>]
                              = Declaration(c, "LexicalScope", name, "Mutable")
                        /\ \A r \in 1..Len(refs) :
                              (IsPrefix(c, refs[r].identifier)
                               /\ At(refs[r].identifier).text = name)
                                  => refs[r].referenceTo
                                        = [binding |-> scopes[catchScope].bindings[name],
                                           scope |-> catchScope]

\* C22: in a for-in or for-of statement the iterated expression is mapped to the
\* scope that contains the loop; the references of its identifiers are recorded in
\* and resolved from that side of the scope tree, never the loop scope, so the
\* source x of for (let x of x) never resolves to the loop variable; the reference
\* of the loop variable is recorded in the loop scope, after the references of the
\* iterated expression.
ForInOfLoops == {n \in AllNodes : At(n).kind \in {"ForInStatement", "ForOfStatement"}}

SourceReferences(loop) ==
    {r \in 1..Len(refs) : IsPrefix(Field(loop, "expression"), refs[r].identifier)}

C22_LoopSourceOutsideLoopScope ==
    pc = "done" =>
        \A loop \in ForInOfLoops :
            \A forScope \in ScopesOf(loop) :
                /\ result[Field(loop, "expression")] = result[loop]
                /\ result[loop] = scopes[forScope].parentScope
                /\ \A r \in SourceReferences(loop) :
                      LET from == refs[r].referencedFromScope
                      IN  /\ OnChain(result[loop], from)
                          /\ ~OnChain(forScope, from)
                          /\ \E i \in 1..Len(scopes[from].references) :
                                scopes[from].references[i] = r
                          /\ refs[r].referenceTo
                                = GetBinding(scopes, from, At(refs[r].identifier).text)
                          /\ refs[r].referenceTo.scope # forScope
                /\ \A q \in LoopNames(loop) :
                      \E r \in ReferencesOf(q) :
                          /\ refs[r].referencedFromScope = forScope
                          /\ \E i \in 1..Len(scopes[forScope].references) :
                                scopes[forScope].references[i] = r
                          /\ \A e \in SourceReferences(loop) : e < r

\* for (let x of x) has run: the source x resolved to the outer x, the loop
\* variable's reference follows it in the loop scope
C22_Witness ==
    /\ pc = "done"
    /\ sourceFile = ForInOfSelf
    /\ \E loop \in ForInOfLoops, r, v \in 1..Len(refs) :
          /\ refs[r].identifier = Field(loop, "expression")
          /\ At(refs[r].identifier).text = "x"
          /\ refs[r].referenceTo.scope = result[loop]
          /\ refs[v].identifier \in LoopNames(loop)
          /\ At(refs[v].identifier).text = "x"
          /\ refs[v].referenceTo.scope \in ScopesOf(loop)
          /\ r < v

\* C23: the block body of a function-like and the block body of a for, for-in or
\* for-of loop get no scope of their own: the body block and its statements map to
\* the function scope (the loop scope), so the parameters (the loop variable) and
\* the declarations at body level are in one binding table; every other block
\* creates exactly one LexicalScope child scope of the scope it occurs in.
Blocks == {n \in AllNodes : IsBlock(At(n)) /\ Len(n) >= 1}

IsBodyBlock(b) ==
    \/ IsFunctionLike(At(Parent(b))) /\ At(b).role = "body"
    \/ IsForLoop(At(Parent(b))) /\ At(b).role = "statement"

\* the names declared by the variable statements directly in block b
BodyLevelNames(b) ==
    {q \in AllNodes :
        \E d \in AllNodes :
            /\ At(d).kind = "VariableDeclaration"
            /\ Len(d) = Len(b) + 3
            /\ IsPrefix(b, d)
            /\ At(Parent(Parent(d))).kind = "VariableStatement"
            /\ q \in BindingTargets(Field(d, "name"))}

\* the names bound by the head of the function-like or loop
HeadNames(owner) ==
    {q \in AllNodes :
        \E d \in AllNodes :
            /\ IsPrefix(owner, d)
            /\ \/ At(d).kind = "Parameter" /\ Parent(d) = owner
               \/ /\ d \in LoopVariableDeclarations
                  /\ Parent(Parent(d)) = owner
            /\ q \in BindingTargets(Field(d, "name"))}

\* the body block b shares the scope of its function-like or loop; names is the
\* set of body-level names that have to be in that scope's table
BodyBlockSharesScope(b, names) ==
    /\ ScopesOf(b) = {}
    /\ ScopesOf(Parent(b)) = {result[b]}
    /\ \A i \in 1..Len(Children(b)) : result[Children(b)[i]] = result[b]
    /\ \A q \in names \cup HeadNames(Parent(b)) :
          At(q).text \in DOMAIN scopes[result[b]].bindings

OtherBlockCreatesScope(b) ==
    /\ Cardinality(ScopesOf(b)) = 1
    /\ \A s \in ScopesOf(b) :
          /\ scopes[s].scopeKind = "LexicalScope"
          /\ scopes[s].parentScope = result[b]
          /\ \E i \in 1..Len(scopes[result[b]].childScopes) :
                scopes[result[b]].childScopes[i] = s
          /\ \A i \in 1..Len(Children(b)) : result[Children(b)[i]] = s

InTypeNode(n) == \E k \in 0..Len(n) : IsTypeNode(At(SubSeq(n, 1, k)))

C24_NoReferenceInTypeNode ==
    /\ \A r \in 1..Len(refs) : ~InTypeNode(refs[r].identifier)
    /\ (pc = "done" /\ sourceFile = ObjectLiterals) =>
          [r \in 1..Len(refs) |-> At(refs[r].identifier).text] = <<"y", "x">>

\* the object literal program is done; it has identifiers inside type nodes
C24_Witness ==
    /\ pc = "done"
    /\ sourceFile = ObjectLiterals
    /\ Len(refs) = 2
    /\ Cardinality({n \in AllNodes : IsIdentifier(At(n)) /\ InTypeNode(n)}) = 2

\* C25: the tag name of every JSX opening, closing and self-closing element is
\* recorded as a read reference, so an element with a closing tag yields two
\* references for its tag name; the expressions of attribute initializers, of
\* spread attributes and of JSX expression containers are recorded as reads;
\* attribute names yield no reference.
IsRead(r) == ~refs[r].isInitializer /\ refs[r].writeExpr = NoNode

\* the identifier an expression starts with: e of e, of e.a, of e.a.b
RECURSIVE HeadIdentifier(_)
HeadIdentifier(e) ==
    IF At(e).kind = "PropertyAccessExpression" THEN HeadIdentifier(Field(e, "expression"))
    ELSE e

\* the identifiers the JSX constructs read
JsxReads ==
    {HeadIdentifier(n) : n \in
        {m \in AllNodes :
            \/ /\ At(m).role = "tagName"
               /\ At(Parent(m)).kind \in {"JsxOpeningElement", "JsxClosingElement",
                                          "JsxSelfClosingElement"}
            \/ /\ At(m).role = "expression"
               /\ At(Parent(m)).kind \in {"JsxExpression", "JsxSpreadAttribute"}}}

JsxAttributeNames ==
    {n \in AllNodes : At(n).role = "name" /\ At(Parent(n)).kind = "JsxAttribute"}

C25_JsxReferences ==
    pc = "done" =>
        /\ \A n \in JsxReads :
              (IsIdentifier(At(n)) /\ At(n).text # "") =>
                  /\ Cardinality(ReferencesOf(n)) = 1
                  /\ \A r \in ReferencesOf(n) : IsRead(r)
        /\ \A e \in {n \in AllNodes : At(n).kind = "JsxElement"} :
              LET tags == {Field(Field(e, "openingElement"), "tagName"),
                           Field(Field(e, "closingElement"), "tagName")}
              IN  (\A t \in tags : IsIdentifier(At(t))) =>
                      Cardinality({r \in 1..Len(refs) : refs[r].identifier \in tags}) = 2
        /\ \A n \in JsxAttributeNames : ReferencesOf(n) = {}

\* the JSX program of the tests is done: two references for MyOtherElement
C25_Witness ==
    /\ pc = "done"
    /\ sourceFile = JsxExpressions
    /\ [r \in 1..Len(refs) |-> At(refs[r].identifier).text]
         = <<"MyXMLElement", "value", "values", "x",
             "MyOtherElement", "value2", "values2", "MyOtherElement", "y">>

\* C26: after any sequence of addReference calls every reference is in the
\* reference list of exactly one scope, its referencedFromScope; a reference is in
\* a binding's list exactly when its referenceTo.binding is that binding, so an
\* unresolved reference is in no binding's list; and for every resolved reference
\* the table of referenceTo.scope maps the identifier's text to
\* referenceTo.binding.
Occurrences(list, r) == Cardinality({i \in 1..Len(list) : list[i] = r})

ReferenceListsConsistent ==
    \A r \in 1..Len(refs) :
        /\ \A s \in ScopeIds :
              Occurrences(scopes[s].references, r)
                  = IF s = refs[r].referencedFromScope THEN 1 ELSE 0
        /\ \A d \in 1..Len(decls) :
              Occurrences(decls[d].references, r)
                  = IF refs[r].referenceTo # NoBinding /\ refs[r].referenceTo.binding = d
                    THEN 1 ELSE 0

ResolvedInTable(r) ==
    refs[r].referenceTo # NoBinding =>
        LET to == refs[r].referenceTo
            name == At(refs[r].identifier).text
        IN  /\ name \in DOMAIN scopes[to.scope].bindings
            /\ scopes[to.scope].bindings[name] = to.binding

C26_ReferenceLists ==
    /\ []ReferenceListsConsistent
    /\ [][Len(refs') > Len(refs) =>
             /\ \A new \in (Len(refs) + 1)..Len(refs') : ResolvedInTable(new)'
             /\ \A r \in 1..Len(refs) : ResolvedInTable(r) => ResolvedInTable(r)']_vars

\* addReference has been called from a child scope for a name bound in its
\* parent, and for a name that is not bound
C26_Witness ==
    /\ pc = "api"
    /\ \E r, u \in 1..Len(refs) :
          /\ refs[r].referenceTo # NoBinding
          /\ refs[r].referenceTo.scope # refs[r].referencedFromScope
          /\ decls[refs[r].referenceTo.binding].references = <<r>>
          /\ refs[u].referenceTo = NoBinding

\* C27: no scope holds two bindings with the same name: when addBinding targets a
\* scope that already has a binding of that name, the new binding replaces the old
\* one, the number of bindings of that scope is unchanged, and every later
\* resolution of the name through that scope returns the later-registered
\* binding.
\* the scope the call addBinding(name, decls'[d]) on scope s stores into
TargetOf(s, d) ==
    IF decls'[d].bindingScopeKind = "LexicalScope" THEN s ELSE NearestFunctionScope(s)

\* the step is the call of addBinding recorded in call'
AddBindingStores ==
    LET d == Len(decls')
        name == call'.name
        t == TargetOf(call'.scope, d)
        before == scopes[t].bindings
        after == scopes'[t].bindings
    IN  /\ after[name] = d
        /\ DOMAIN after = DOMAIN before \cup {name}
        /\ name \in DOMAIN before =>
              /\ before[name] # d
              /\ Cardinality(DOMAIN after) = Cardinality(DOMAIN before)
        /\ \A n \in DOMAIN before \ {name} : after[n] = before[n]
        /\ \A s \in ScopeIds \ {t} : scopes'[s].bindings = scopes[s].bindings
        /\ \A s \in ScopeIds :
              (\/ s = t
               \/ NearestHolder(s, name) # NoBinding /\ NearestHolder(s, name).scope = t)
                  => GetBinding(scopes', s, name) = [binding |-> d, scope |-> t]

C27_RebindingReplaces ==
    [][/\ Len(decls') > Len(decls) => AddBindingStores
       /\ Len(decls') = Len(decls) =>
             \A s \in ScopeIds : scopes'[s].bindings = scopes[s].bindings
       /\ \A r \in (Len(refs) + 1)..Len(refs') :
             LET holder == NearestHolder(refs'[r].referencedFromScope,
                                         At(refs'[r].identifier).text)
             IN  refs'[r].referenceTo = holder]_vars

\* a name was bound twice in one scope, the second time by a hoisted binding
\* registered on a child scope, and then resolved
C27_Witness ==
    /\ pc = "api"
    /\ Len(decls) = 2 /\ Len(scopes) = 2 /\ Len(refs) = 1
    /\ decls[1].identifier = decls[2].identifier
    /\ decls[2].bindingScopeKind = "FunctionScope"
    /\ scopes[2].scopeKind = "LexicalScope"
    /\ Cardinality(DOMAIN scopes[1].bindings) = 1
    /\ DOMAIN scopes[2].bindings = {}
    /\ refs[1].referenceTo = [binding |-> 2, scope |-> 1]
    /\ decls[1].references = <<>>

\* C28: getOwnFunctionScopeBinding(n) on scope S returns the binding for n from the
\* nearest scope holding n among S, the consecutive LexicalScope ancestors of S and
\* the first FunctionScope scope reached, inclusive, and returns null without
\* looking beyond that function scope; a non-null result equals getBinding(n) on S;
\* getOwnLexicalBinding(n) looks in the table of S only.
\* S, its LexicalScope ancestors one after the other, and the first FunctionScope
\* scope reached
FunctionSegment(s) ==
    LET chain == Chain(scopes, s)
        is == {i \in 1..Len(chain) : scopes[chain[i]].scopeKind = "FunctionScope"}
    IN  IF is = {} THEN chain ELSE SubSeq(chain, 1, Least(is))

NearestInSegment(s, name) ==
    LET segment == FunctionSegment(s)
        is == {i \in 1..Len(segment) : name \in DOMAIN scopes[segment[i]].bindings}
    IN  IF is = {} THEN NoBinding
        ELSE [binding |-> scopes[segment[Least(is)]].bindings[name],
              scope |-> segment[Least(is)]]

C28_OwnLookups ==
    /\ call.op = "getOwnFunctionScopeBinding" =>
          /\ call.returned = NearestInSegment(call.scope, call.name)
          /\ call.returned # NoBinding =>
                call.returned = GetBinding(scopes, call.scope, call.name)
    /\ call.op = "getOwnLexicalBinding" =>
          call.returned = IF call.name \in DOMAIN scopes[call.scope].bindings
                          THEN scopes[call.scope].bindings[call.name]
                          ELSE NoDecl
    /\ call.op = "getBinding" => call.returned = NearestHolder(call.scope, call.name)

\* getOwnFunctionScopeBinding returned null for a name that getBinding finds
\* beyond the function scope, and getOwnLexicalBinding returned null for a name
\* bound in the parent scope
C28_Witness ==
    /\ \/ /\ call.op = "getOwnFunctionScopeBinding"
          /\ call.returned = NoBinding
       \/ /\ call.op = "getOwnLexicalBinding"
          /\ call.returned = NoDecl
    /\ GetBinding(scopes, call.scope, call.name) # NoBinding
    /\ \E s \in ScopeIds :
          /\ scopes[s].scopeKind = "LexicalScope"
          /\ GetOwnFunctionScopeBinding(scopes, s, call.name) # NoBinding
          /\ GetOwnFunctionScopeBinding(scopes, s, call.name).scope # s

\* C29: for every scope S other than the root, the node that introduces S (block,
\* function-like, class-like or loop) maps in the node-to-scope table to the
\* parent scope of S, not to S; the root node maps to the root scope, the only
\* scope without a parent, which is FunctionScope-kind; every mapped node other
\* than the root maps to the scope of its parent node or to a direct child scope
\* of it.
RootScope == 1

MappedNodes == {n \in AllNodes : MapHas(result, n)}

C29_DeclaringNodeInParentScope ==
    pc \in {"findScopes", "assignReferences", "done"} =>
        /\ \A s \in ScopeIds \ {RootScope} :
              /\ scopes[s].parentScope # NoScope
              /\ scopes[s].parentScope # s
              /\ MapHas(result, scopes[s].declaratingNode)
              /\ result[scopes[s].declaratingNode] = scopes[s].parentScope
              /\ \/ IsBlock(At(scopes[s].declaratingNode))
                 \/ IsFunctionLike(At(scopes[s].declaratingNode))
                 \/ IsClassLike(At(scopes[s].declaratingNode))
                 \/ IsForLoop(At(scopes[s].declaratingNode))
        /\ scopes[RootScope].parentScope = NoScope
        /\ scopes[RootScope].scopeKind = "FunctionScope"
        /\ scopes[RootScope].declaratingNode = <<>>
        /\ MapHas(result, <<>>) => result[<<>>] = RootScope
        /\ pc = "done" => MapHas(result, <<>>)
        /\ \A n \in MappedNodes \ {<<>>} :
              /\ MapHas(result, Parent(n))
              /\ \/ result[n] = result[Parent(n)]
                 \/ scopes[result[n]].parentScope = result[Parent(n)]

\* a program with a function in a block in a function is analysed: scopes three
\* deep, some nodes in the scope of their parent node, some in a child of it
C29_Witness ==
    /\ pc = "done"
    /\ \E s \in ScopeIds :
          /\ Len(Chain(scopes, s)) >= 3
          /\ IsFunctionLike(At(scopes[s].declaratingNode))
          /\ IsBlock(At(scopes[scopes[s].parentScope].declaratingNode))
    /\ \E n \in MappedNodes \ {<<>>} : scopes[result[n]].parentScope = result[Parent(n)]

\* C30: pass 2 records at most one reference per identifier node: over the
\* reference lists of all scopes no identifier node occurs twice, so the number of
\* references never exceeds the number of identifier nodes of the tree, and the
\* order of the references in a scope's list is the order in which pass 2 came to
\* their identifiers.
IdentifierNodes == {n \in AllNodes : IsIdentifier(At(n))}

OneReferencePerIdentifier ==
    /\ \A r \in 1..Len(refs) : refs[r].identifier \in IdentifierNodes
    /\ \A r, q \in 1..Len(refs) : refs[r].identifier = refs[q].identifier => r = q
    /\ \A n \in IdentifierNodes :
          Cardinality({<<s, i>> \in ScopeIds \X (1..Len(refs)) :
                          /\ i <= Len(scopes[s].references)
                          /\ refs[scopes[s].references[i]].identifier = n}) <= 1
    /\ Len(refs) <= Cardinality(IdentifierNodes)

\* a step of pass 2 records nothing, or one reference for the identifier it is at
\* (the left side of the assignment it is at), put at the end of one scope's list
RecordedInVisitOrder ==
    pc = "assignReferences" =>
        /\ Len(refs') \in {Len(refs), Len(refs) + 1}
        /\ SubSeq(refs', 1, Len(refs)) = refs
        /\ \A s \in ScopeIds :
              \/ scopes'[s].references = scopes[s].references
              \/ /\ Len(refs') = Len(refs) + 1
                 /\ scopes'[s].references = Append(scopes[s].references, Len(refs'))
                 /\ refs'[Len(refs')].identifier
                       \in {Top.node, Field(Top.node, "left")}

C30_OneReferencePerIdentifier ==
    /\ []OneReferencePerIdentifier
    /\ [][RecordedInVisitOrder]_vars

\* pass 2 is through with a program that has a function expression in a value
\* position, visited a second time with the flag cleared
C30_Witness ==
    /\ pc = "done"
    /\ Len(refs) >= 3
    /\ \E n \in AllNodes : At(n).kind = "FunctionExpression"
    /\ \E s \in ScopeIds : Len(scopes[s].references) >= 2

====
